---- MODULE Spec2Model ----
(***************************************************************************)
(* A model of wsgi_tools: the rule-chain Router with its PathRule,         *)
(* MethodRule and ContentTypeRule (routing.py) and the JSON filters        *)
(* (filtered_parser.py).                                                   *)
(*                                                                         *)
(* Python str values are TLA+ strings; s[i:j] is SubSeq, + is \o.          *)
(* None / an absent environ key is the empty tuple <<>>, a present value v *)
(* is the one-element tuple <<v>>.                                         *)
(* A value captured by a path converter is a tagged pair: <<"int", 42>>    *)
(* for the Python int 42, <<"str", "joe">> for the Python str 'joe'.       *)
(***************************************************************************)
EXTENDS Integers, Sequences, FiniteSets, TLC

VARIABLES
    mode,      \* which part of the program this behaviour exercises
    \* ---- PathRule.check as a function call (routing.py 91-123)
    pattern,   \* the route's path value: literals at odd, converters at even positions
    path,      \* environ['PATH_INFO']
    ret,       \* <<>> before the call, <<r>> after check returned r
    args,      \* PathRule.args, the field of the one shared PathRule instance
    \* ---- Router (routing.py 208-229)
    rules,     \* Router.rules: the rule at each position
    routes,    \* Router.routes in insertion order: [key |-> one value per rule, app |-> WSGI app]
    frame,     \* per thread, the activation of Router.__call__ and of the app it forwards to
    \* ---- ContentTypeRule.check as a function call (routing.py 175-183)
    content_type,  \* environ.get('CONTENT_TYPE'): <<>> for None
    expected,      \* the route's content-type value: <<>> for None
    \* ---- a filter applied to a value (filtered_parser.py 43-182)
    schema,    \* the filter
    json,      \* the JSON value
    eval,      \* per thread, an evaluation of the shared filter, one step per filter call
    \* ---- MethodRule.check as a function call (routing.py 139-140)
    method,        \* environ['REQUEST_METHOD']
    route_method,  \* the route's method value
    \* ---- FilteredJSONParser (filtered_parser.py 185-229)
    parser,    \* the activation of FilteredJSONParser.__call__ and its request_data
    input,     \* environ['wsgi.input']: the body, the read position, the read calls
    \* ---- BasicAuth (basic_auth.py 23-69)
    auth       \* per thread, the activation of BasicAuth.__call__ and its request_data

vars == <<mode, pattern, path, ret, args, rules, routes, frame, content_type, expected,
          schema, json, eval, method, route_method, parser, input, auth>>

\* the variables of the function-call specifications, and those of the Router
pathVars == <<pattern, path>>
ctVars == <<content_type, expected>>
filterVars == <<schema, json, eval>>
methodVars == <<method, route_method>>
parserVars == <<parser, input>>
authVars == <<auth>>
routerVars == <<rules, routes, frame>>

\* the variables of the parts a behaviour does not exercise
PathUnused == pattern = <<>> /\ path = ""
ContentTypeUnused == content_type = <<>> /\ expected = <<>>
FilterUnused == schema = <<>> /\ json = <<>> /\ eval = <<>>
MethodUnused == method = "" /\ route_method = ""
ParserUnused == parser = <<>> /\ input = <<>>
AuthUnused == auth = <<>>
RouterUnused == rules = <<>> /\ routes = <<>> /\ frame = <<>>

-----------------------------------------------------------------------------
(* Bounds                                                                  *)

MaxPathLen == 3
MaxContentTypeLen == 3
MaxValueLen == 2
MaxListLen == 2
MaxMethodLen == 2

-----------------------------------------------------------------------------
(* Python str primitives                                                   *)

Min(a, b) == IF a < b THEN a ELSE b

\* s[:n] for n >= 0
Prefix(s, n) == SubSeq(s, 1, Min(n, Len(s)))

\* s[n:] for n >= 0
Suffix(s, n) == IF n >= Len(s) THEN "" ELSE SubSeq(s, n + 1, Len(s))

\* s.startswith(p), written in the source as s[:len(p)] == p
StartsWith(s, p) == Prefix(s, Len(p)) = p

\* s.find(sub): the lowest index (0-based) where sub occurs in s, or -1
Find(s, sub) ==
    LET hits == {i \in 0..(Len(s) - Len(sub)) : SubSeq(s, i + 1, i + Len(sub)) = sub}
    IN  IF hits = {} THEN -1 ELSE CHOOSE i \in hits : \A j \in hits : i <= j

\* sub in s, for strings
Contains(s, sub) == Find(s, sub) # -1

\* s.split(sep) for a one-character separator
RECURSIVE Split(_, _)
Split(s, sep) ==
    LET i == Find(s, sep)
    IN  IF i = -1 THEN <<s>>
        ELSE <<Prefix(s, i)>> \o Split(Suffix(s, i + 1), sep)

\* x in list
InList(x, list) == \E k \in 1..Len(list) : list[k] = x

Digits == {"0", "1", "2", "3", "4", "5", "6", "7", "8", "9"}

DigitVal(c) ==
    CASE c = "0" -> 0 [] c = "1" -> 1 [] c = "2" -> 2 [] c = "3" -> 3
      [] c = "4" -> 4 [] c = "5" -> 5 [] c = "6" -> 6 [] c = "7" -> 7
      [] c = "8" -> 8 [] c = "9" -> 9

CharAt(s, k) == SubSeq(s, k, k)

\* s.strip() for the blank character
RECURSIVE Strip(_)
Strip(s) ==
    IF s = "" THEN s
    ELSE IF CharAt(s, 1) = " " THEN Strip(Suffix(s, 1))
    ELSE IF CharAt(s, Len(s)) = " " THEN Strip(Prefix(s, Len(s) - 1))
    ELSE s

\* the digits-and-underscores body of an int literal: begins and ends with a
\* digit, and an underscore stands only between two digits
IntBodyOK(b) ==
    /\ b # ""
    /\ \A k \in 1..Len(b) : CharAt(b, k) \in Digits \cup {"_"}
    /\ CharAt(b, 1) \in Digits
    /\ CharAt(b, Len(b)) \in Digits
    /\ \A k \in 1..(Len(b) - 1) : ~(CharAt(b, k) = "_" /\ CharAt(b, k + 1) = "_")

RECURSIVE IntBodyVal(_)
IntBodyVal(b) ==
    IF b = "" THEN 0
    ELSE IF CharAt(b, Len(b)) = "_" THEN IntBodyVal(Prefix(b, Len(b) - 1))
    ELSE 10 * IntBodyVal(Prefix(b, Len(b) - 1)) + DigitVal(CharAt(b, Len(b)))

IntSigned(s) == s # "" /\ CharAt(s, 1) \in {"+", "-"}
IntBody(s) == IF IntSigned(Strip(s)) THEN Suffix(Strip(s), 1) ELSE Strip(s)

\* int(s) raises ValueError; of the characters of a str, int takes the
\* digits, one leading sign, underscores between digits and blanks around
IntRaises(s) == ~IntBodyOK(IntBody(s))

\* int(s), when it does not raise
IntValue(s) ==
    IF CharAt(Strip(s), 1) = "-" THEN 0 - IntBodyVal(IntBody(s)) ELSE IntBodyVal(IntBody(s))

-----------------------------------------------------------------------------
(* Path converters: the callables of a path pattern (routing.py 112-116)   *)

Converters == {"int", "str"}

\* func(content) raises ValueError
ConvRaises(func, content) == IF func = "int" THEN IntRaises(content) ELSE FALSE

\* arg = func(content)
ConvValue(func, content) ==
    IF func = "int" THEN <<"int", IntValue(content)>> ELSE <<"str", content>>

-----------------------------------------------------------------------------
(* PathRule.check (routing.py 91-123)                                      *)

\* CheckStep with a last converter that reads only up to the next '/'
CheckStepLastStopsAtSlash(value, i, st) ==
    IF st.failed THEN st
    ELSE IF i % 2 = 1 THEN
        IF StartsWith(st.path, value[i])
        THEN [st EXCEPT !.path = Suffix(st.path, Len(value[i]))]
        ELSE [st EXCEPT !.failed = TRUE]
    ELSE
        LET last == (i = Len(value))
            slash == Find(st.path, "/")
            content_end == IF last THEN (IF slash = -1 THEN Len(st.path) ELSE slash)
                           ELSE Find(st.path, value[i + 1])
        IN  IF content_end = -1 THEN [st EXCEPT !.failed = TRUE]
            ELSE LET content == Prefix(st.path, content_end)
                     rest == Suffix(st.path, content_end)
                 IN  IF ConvRaises(value[i], content) THEN [st EXCEPT !.failed = TRUE]
                     ELSE [path |-> rest,
                           args |-> Append(st.args, ConvValue(value[i], content)),
                           failed |-> FALSE]

\* One run of the loop body for index i (1-based here, 0-based in the source)
\* on the loop state st = [path, args, failed]; `string` is i odd.
CheckStep(value, i, st) ==
    IF st.failed THEN st
    ELSE IF i % 2 = 1 THEN
        IF StartsWith(st.path, value[i])
        THEN [st EXCEPT !.path = Suffix(st.path, Len(value[i]))]
        ELSE [st EXCEPT !.failed = TRUE]
    ELSE
        LET last == (i = Len(value))
            content_end == IF last THEN Len(st.path) ELSE Find(st.path, value[i + 1])
        IN  IF content_end = -1 THEN [st EXCEPT !.failed = TRUE]
            ELSE LET content == Prefix(st.path, content_end)
                     rest == Suffix(st.path, content_end)
                 IN  IF ConvRaises(value[i], content) THEN [st EXCEPT !.failed = TRUE]
                     ELSE [path |-> rest,
                           args |-> Append(st.args, ConvValue(value[i], content)),
                           failed |-> FALSE]

RECURSIVE CheckLoop(_, _, _)
CheckLoop(value, i, st) ==
    IF i > Len(value) THEN st ELSE CheckLoop(value, i + 1, CheckStep(value, i, st))

\* PathRuleCheck without the final test that the path is used up
PathRuleCheckIgnoringRest(value, p) ==
    LET st == CheckLoop(value, 1, [path |-> p, args |-> <<>>, failed |-> FALSE])
    IN  IF st.failed THEN [ok |-> FALSE, args |-> <<>>]
        ELSE [ok |-> TRUE, args |-> st.args]

\* The outcome of PathRule.check(environ, value) with environ['PATH_INFO'] = p:
\* ok is the returned bool, args the local list assigned to self.args when ok.
PathRuleCheck(value, p) ==
    LET st == CheckLoop(value, 1, [path |-> p, args |-> <<>>, failed |-> FALSE])
    IN  IF st.failed \/ st.path # "" THEN [ok |-> FALSE, args |-> <<>>]
        ELSE [ok |-> TRUE, args |-> st.args]

-----------------------------------------------------------------------------
(* Inputs of the PathRule specification                                    *)

PathAlphabet == {"/", "a", "1"}

RECURSIVE StringsUpTo(_, _)
StringsUpTo(alphabet, n) ==
    IF n = 0 THEN {""}
    ELSE LET shorter == StringsUpTo(alphabet, n - 1)
         IN  shorter \cup {s \o c : s \in shorter, c \in alphabet}

\* the pattern and the paths of the spec's example
IdNamePattern == <<"/id/", "int", "/name/", "str">>
PathJoe == "/id/42/name/joe"
PathAbc == "/id/abc/name/joe"
PathExtra == "/id/42/name/joe/extra"

Patterns ==
    { <<"/">>, <<"/a">>, <<"/", "int">>, <<"/", "str">>,
      <<"/", "str", "/a">>, <<"/", "int", "1">>, <<"/", "int", "/a">>,
      <<"", "str", "/", "int">>, <<"/", "str", "">>, <<"/", "int", "/", "str", "/a">>,
      <<"/id/", "int", "/name">>, IdNamePattern }

Paths == StringsUpTo(PathAlphabet, MaxPathLen)
            \cup {PathJoe, PathAbc, PathExtra, "/id/42/name", "/id/42/name/extra",
                  "/ 1", "/-1", "/+1", "/1_1", "/_1", "/1__1", "/-"}

-----------------------------------------------------------------------------
(* Specification SpecPath: calls of PathRule.check on one PathRule         *)

InitPath ==
    /\ mode = "path"
    /\ pattern \in Patterns
    /\ path \in Paths
    /\ ret = <<>>
    /\ args = <<>>          \* PathRule.__init__ (routing.py 88-89)
    /\ RouterUnused
    /\ ContentTypeUnused
    /\ FilterUnused
    /\ MethodUnused
    /\ ParserUnused
    /\ AuthUnused

\* PathCheck with a check that assigns self.args before it knows the outcome
PathCheckPublishingAlways ==
    /\ mode = "path"
    /\ ret = <<>>
    /\ LET r == PathRuleCheck(pattern, path)
       IN  /\ ret' = <<r.ok>>
           /\ args' = r.args
    /\ UNCHANGED <<mode, pathVars, routerVars, ctVars, filterVars, methodVars, parserVars, authVars>>

\* ret = path_rule.check(environ, value)
PathCheck ==
    /\ mode = "path"
    /\ ret = <<>>
    /\ LET r == PathRuleCheck(pattern, path)
       IN  /\ ret' = <<r.ok>>
           /\ args' = IF r.ok THEN r.args ELSE args
    /\ UNCHANGED <<mode, pathVars, routerVars, ctVars, filterVars, methodVars, parserVars, authVars>>

\* the caller goes on to the next route's value for the same request
\* (the list comprehension of Router.__call__)
PathNextValue ==
    /\ mode = "path"
    /\ ret # <<>>
    /\ pattern' \in Patterns
    /\ ret' = <<>>
    /\ UNCHANGED <<mode, path, args, routerVars, ctVars, filterVars, methodVars, parserVars, authVars>>

\* the caller goes on to the next request
PathNextRequest ==
    /\ mode = "path"
    /\ ret # <<>>
    /\ path' \in Paths
    /\ ret' = <<>>
    /\ UNCHANGED <<mode, pattern, args, routerVars, ctVars, filterVars, methodVars, parserVars, authVars>>

NextPath == PathCheck \/ PathNextValue \/ PathNextRequest

SpecPath == InitPath /\ [][NextPath]_vars

-----------------------------------------------------------------------------
(* MethodRule and ContentTypeRule (routing.py 129-186)                     *)

\* What a call of Rule.check does: it returns ok, or it raises (raises names
\* the exception, "" for none); args is what PathRule.check assigns to
\* self.args when it returns True.
Returned(ok) == [raises |-> "", ok |-> ok, args |-> <<>>]
Raised(exc) == [raises |-> exc, ok |-> FALSE, args |-> <<>>]

\* s.upper() for the letters of the method strings
RECURSIVE Upper(_)
Upper(s) ==
    IF s = "" THEN ""
    ELSE (CASE CharAt(s, 1) = "g" -> "G" [] CharAt(s, 1) = "e" -> "E"
            [] CharAt(s, 1) = "t" -> "T" [] OTHER -> CharAt(s, 1)) \o Upper(Suffix(s, 1))

\* MethodRule.check comparing the upper-cased strings
MethodRuleCheckIgnoringCase(environ, value) ==
    Returned(Upper(value) = Upper(environ.REQUEST_METHOD))

\* MethodRule.check: value == environ['REQUEST_METHOD']
MethodRuleCheck(environ, value) == Returned(value = environ.REQUEST_METHOD)

\* ContentTypeRule.check; environ.CONTENT_TYPE is <<>> when the key is absent,
\* value is <<>> for None
ContentTypeRuleCheck(environ, value) ==
    IF environ.CONTENT_TYPE = <<>> THEN Returned(value = <<>>)
    ELSE IF value = <<>> THEN Returned(FALSE)
    ELSE IF Contains(value[1], "/") THEN Returned(value[1] = environ.CONTENT_TYPE[1])
    ELSE LET parts == Split(environ.CONTENT_TYPE[1], "/")
         IN  IF Len(parts) < 2 THEN Raised("IndexError")
             ELSE Returned(InList(value[1], Split(parts[2], "+")))

\* PathRule.check as a Rule
PathRuleAsRule(environ, value) ==
    LET r == PathRuleCheck(value, environ.PATH_INFO)
    IN  [raises |-> "", ok |-> r.ok, args |-> r.args]

\* rule.check(environ, value)
RuleCheck(rule, environ, value) ==
    CASE rule = "PathRule" -> PathRuleAsRule(environ, value)
      [] rule = "MethodRule" -> MethodRuleCheck(environ, value)
      [] rule = "ContentTypeRule" -> ContentTypeRuleCheck(environ, value)

\* rule.get_exception().code
RuleExceptionCode(rule) ==
    CASE rule = "PathRule" -> 404
      [] rule = "MethodRule" -> 405
      [] rule = "ContentTypeRule" -> 415

-----------------------------------------------------------------------------
(* Router (routing.py 208-229)                                             *)

Threads == {1, 2}

NoOutcome == [kind |-> "none", code |-> 0, route |-> 0]
Forwarded(k) == [kind |-> "app", code |-> 0, route |-> k]
HTTPException(code) == [kind |-> "HTTPException", code |-> code, route |-> 0]
OtherException(exc) == [kind |-> exc, code |-> 0, route |-> 0]

NoEnviron == [PATH_INFO |-> "", REQUEST_METHOD |-> "", CONTENT_TYPE |-> <<>>]

\* A thread that is not inside Router.__call__
IdleFrame(pc) ==
    [pc |-> pc, environ |-> NoEnviron,
     i |-> 0,            \* position of the rule of the running loop iteration
     routes |-> <<>>,    \* the local list `routes`: indexes into Router.routes
     j |-> 0,            \* position of the list comprehension in `routes`
     kept |-> <<>>,      \* the list the comprehension is building
     checked |-> <<>>,   \* the calls of check made: <<rule position, route index>>
     invoked |-> <<>>,   \* the apps called
     outcome |-> NoOutcome,
     seen |-> <<>>]      \* <<v>> once the app has read path_rule.args as v

\* The route tables, written (path value, method value, content-type value, app)
Route(p, m, c, app) == [PathRule |-> p, MethodRule |-> m, ContentTypeRule |-> c, app |-> app]

\* the table of example.py
TableExample ==
    << Route(<<"/create">>, "POST", <<"json">>, "create_app_auth"),
       Route(<<"/", "int", "/options">>, "GET", <<>>, "options_app"),
       Route(<<"/">>, "GET", <<>>, "index_app") >>

\* routes whose path patterns match the same paths
TableOverlap ==
    << Route(<<"/", "str">>, "GET", <<>>, "str_app"),
       Route(<<"/", "int">>, "POST", <<"application/json">>, "int_app"),
       Route(<<"/create">>, "POST", <<"json">>, "create_app") >>

\* routes that agree in every dimension for some requests
TableAmbiguous ==
    << Route(<<"/", "int">>, "GET", <<>>, "first_app"),
       Route(<<"/", "str">>, "GET", <<>>, "second_app"),
       Route(<<"/1">>, "GET", <<>>, "third_app") >>

Tables == {TableExample, TableOverlap, TableAmbiguous}

RuleOrders ==
    { <<"PathRule", "MethodRule", "ContentTypeRule">>,
      <<"ContentTypeRule", "MethodRule", "PathRule">> }

\* the dict Router is constructed with: each key holds the route's values in
\* the order of the rules
RoutesFor(rls, table) ==
    [k \in 1..Len(table) |->
        [key |-> [i \in 1..Len(rls) |-> table[k][rls[i]]], app |-> table[k].app]]

RequestPaths == {"/", "/1", "/create", "/0/options"}
RequestMethods == {"GET", "POST"}
RequestContentTypes == {<<>>, <<"application/json">>, <<"json">>}

Environs ==
    [PATH_INFO : RequestPaths, REQUEST_METHOD : RequestMethods,
     CONTENT_TYPE : RequestContentTypes]

\* for i, rule in enumerate(self.rules): the rule at position 1
\* starts on routes = list(self.routes)
Enter(f, environ) ==
    [IdleFrame("filter") EXCEPT
        !.environ = environ, !.i = 1, !.routes = [k \in 1..Len(routes) |-> k], !.j = 1]

\* Selected taking the last candidate, routes[-1]
SelectedLast(list) == list[Len(list)]

\* the app Router forwards to: routes[0]
Selected(list) == list[1]

\* The end of one loop iteration, `kept` being the filtered list:
\* raise if it is empty, go on to the next rule, or forward after the last.
FilterDone(f, kept) ==
    IF Len(kept) = 0
    THEN [f EXCEPT !.pc = "done", !.kept = kept,
                   !.outcome = HTTPException(RuleExceptionCode(rules[f.i]))]
    ELSE IF f.i = Len(rules)
    THEN [f EXCEPT !.pc = "app", !.routes = kept, !.kept = <<>>,
                   !.outcome = Forwarded(Selected(kept)),
                   !.invoked = Append(f.invoked, routes[Selected(kept)].app)]
    ELSE [f EXCEPT !.i = f.i + 1, !.routes = kept, !.j = 1, !.kept = <<>>]

\* The frame after rule.check(environ, route[i]) gave r for the route at
\* position j of the comprehension
AfterCheck(f, r) ==
    LET k == f.routes[f.j]
        g == [f EXCEPT !.checked = Append(f.checked, <<f.i, k>>)]
        kept == IF r.ok THEN Append(f.kept, k) ELSE f.kept
    IN  IF r.raises # "" THEN [g EXCEPT !.pc = "done", !.outcome = OtherException(r.raises)]
        ELSE IF f.j < Len(f.routes) THEN [g EXCEPT !.j = f.j + 1, !.kept = kept]
        ELSE FilterDone(g, kept)

\* self.args after rule.check gave r
ArgsAfterCheck(rule, r, old) == IF rule = "PathRule" /\ r.ok THEN r.args ELSE old

\* A request arrives on thread t: Router.__call__(environ, start_response)
Receive(t) ==
    /\ mode = "router"
    /\ frame[t].pc \in {"idle", "done"}
    /\ \E environ \in Environs : frame' = [frame EXCEPT ![t] = Enter(frame[t], environ)]
    /\ UNCHANGED <<mode, pathVars, ret, args, rules, routes, ctVars, filterVars, methodVars, parserVars, authVars>>

\* Thread t makes the next call rule.check(environ, route[i]) of the list
\* comprehension, and whatever follows it up to the next call of check
Check(t) ==
    /\ mode = "router"
    /\ frame[t].pc = "filter"
    /\ LET f == frame[t]
           rule == rules[f.i]
           r == RuleCheck(rule, f.environ, routes[f.routes[f.j]].key[f.i])
       IN  /\ frame' = [frame EXCEPT ![t] = AfterCheck(f, r)]
           /\ args' = ArgsAfterCheck(rule, r, args)
    /\ UNCHANGED <<mode, pathVars, ret, rules, routes, ctVars, filterVars, methodVars, parserVars, authVars>>

\* The app thread t forwarded to reads path_rule.args (example.py 23-27)
App(t) ==
    /\ mode = "router"
    /\ frame[t].pc = "app"
    /\ frame' = [frame EXCEPT ![t] = [@ EXCEPT !.pc = "done", !.seen = <<args>>]]
    /\ UNCHANGED <<mode, pathVars, ret, args, rules, routes, ctVars, filterVars, methodVars, parserVars, authVars>>

Next == \E t \in Threads : Receive(t) \/ Check(t) \/ App(t)

\* Router(rules, routes) with a fresh PathRule; every thread serves requests
Init ==
    /\ mode = "router"
    /\ PathUnused /\ ret = <<>>
    /\ ContentTypeUnused
    /\ FilterUnused
    /\ MethodUnused
    /\ ParserUnused
    /\ AuthUnused
    /\ args = <<>>
    /\ rules = <<"PathRule", "MethodRule", "ContentTypeRule">>
    /\ \E table \in Tables : routes = RoutesFor(rules, table)
    /\ frame = [t \in Threads |-> IdleFrame("idle")]

\* as Init, with any order of the rules and one thread serving the requests
\* one after the other
InitSequential ==
    /\ mode = "router"
    /\ PathUnused /\ ret = <<>>
    /\ ContentTypeUnused
    /\ FilterUnused
    /\ MethodUnused
    /\ ParserUnused
    /\ AuthUnused
    /\ args = <<>>
    /\ rules \in RuleOrders
    /\ \E table \in Tables : routes = RoutesFor(rules, table)
    /\ frame = [t \in Threads |-> IdleFrame(IF t = 1 THEN "idle" ELSE "off")]

Spec == Init /\ [][Next]_vars

SpecSequential == InitSequential /\ [][Next]_vars

-----------------------------------------------------------------------------
(* Specification SpecContentType: calls of ContentTypeRule.check           *)

ContentTypeAlphabet == {"/", "+", "j", "x"}

RequestHeaders ==
    {<<>>} \cup {<<c>> : c \in StringsUpTo(ContentTypeAlphabet, MaxContentTypeLen)
                            \cup {"application/json", "application/vnd.api+json",
                                  "application/xml", "application/json; charset=utf-8",
                                  "hello/foo+json+bar", "json", "text/plain"}}

ExpectedValues ==
    {<<>>} \cup {<<v>> : v \in StringsUpTo(ContentTypeAlphabet, MaxValueLen)
                            \cup {"json", "application/json", "xml", "foo"}}

InitContentType ==
    /\ mode = "content_type"
    /\ content_type \in RequestHeaders
    /\ expected \in ExpectedValues
    /\ ret = <<>>
    /\ args = <<>>
    /\ PathUnused
    /\ RouterUnused
    /\ FilterUnused
    /\ MethodUnused
    /\ ParserUnused
    /\ AuthUnused

\* ret = CONTENT_TYPE_RULE.check(environ, value), or the exception it raises
ContentTypeCheck ==
    /\ mode = "content_type"
    /\ ret = <<>>
    /\ ret' = <<ContentTypeRuleCheck([NoEnviron EXCEPT !.CONTENT_TYPE = content_type], expected)>>
    /\ UNCHANGED <<mode, pathVars, args, routerVars, ctVars, filterVars, methodVars, parserVars, authVars>>

SpecContentType == InitContentType /\ [][ContentTypeCheck]_vars

-----------------------------------------------------------------------------
(* Specification SpecMethod: calls of MethodRule.check and get_exception   *)

MethodAlphabet == {"G", "g", "E", "e"}

MethodStrings ==
    StringsUpTo(MethodAlphabet, MaxMethodLen)
        \cup {"GET", "get", "Get", "GET ", "POST", "post", "DELETE"}

InitMethod ==
    /\ mode = "method"
    /\ method \in MethodStrings
    /\ route_method \in MethodStrings
    /\ ret = <<>>
    /\ args = <<>>
    /\ PathUnused
    /\ RouterUnused
    /\ ContentTypeUnused
    /\ FilterUnused
    /\ ParserUnused
    /\ AuthUnused

\* ret = <<METHOD_RULE.check(environ, value)>>
MethodCheck ==
    /\ mode = "method"
    /\ ret = <<>>
    /\ ret' = <<MethodRuleCheck([NoEnviron EXCEPT !.REQUEST_METHOD = method], route_method)>>
    /\ UNCHANGED <<mode, pathVars, args, routerVars, ctVars, filterVars, methodVars,
                   parserVars, authVars>>

\* the caller asks for the rule's exception: ret = <<check's result, the exception>>
MethodGetException ==
    /\ mode = "method"
    /\ Len(ret) = 1
    /\ ret' = Append(ret, HTTPException(RuleExceptionCode("MethodRule")))
    /\ UNCHANGED <<mode, pathVars, args, routerVars, ctVars, filterVars, methodVars,
                   parserVars, authVars>>

NextMethod == MethodCheck \/ MethodGetException

SpecMethod == InitMethod /\ [][NextMethod]_vars

-----------------------------------------------------------------------------
(* JSON values and Python's formatting of them (filtered_parser.py)        *)
(*                                                                         *)
(* A JSON value is a tuple headed by the name of its Python class:         *)
(*   <<"int", n>>, <<"float", h>> for the float h/2, <<"str", s>>,         *)
(*   <<"bool", b>>, <<"NoneType">>, <<"list", <<v1, ...>>>> and            *)
(*   <<"dict", << <<k1, v1>>, ... >>>> with the keys in insertion order.   *)
(* The floats that are no number of halves carry their str as a third     *)
(* element: <<"float", 0, "nan">>, <<"float", 0, "inf">>,                  *)
(* <<"float", 0, "-inf">>, which json.loads returns for the texts NaN,     *)
(* Infinity and -Infinity, and <<"float", 0, "-0.0">>, the negative zero.  *)

\* value.__class__.__name__
ClassName(v) == v[1]

\* v != v: the float nan
IsNaN(v) == ClassName(v) = "float" /\ Len(v) = 3 /\ v[3] = "nan"

\* the floats inf and -inf
IsPosInf(v) == ClassName(v) = "float" /\ Len(v) = 3 /\ v[3] = "inf"
IsNegInf(v) == ClassName(v) = "float" /\ Len(v) = 3 /\ v[3] = "-inf"

Abs(n) == IF n < 0 THEN 0 - n ELSE n

\* str(h/2) for a float
FloatStr(h) ==
    (IF h < 0 THEN "-" ELSE "") \o ToString(Abs(h) \div 2) \o "."
        \o (IF Abs(h) % 2 = 0 THEN "0" ELSE "5")

\* sep.join(strings)
RECURSIVE Join(_, _)
Join(strings, sep) ==
    IF Len(strings) = 0 THEN ""
    ELSE IF Len(strings) = 1 THEN strings[1]
    ELSE strings[1] \o sep \o Join(Tail(strings), sep)

\* the body of repr(s) for a str s between the quotes: a backslash before
\* each backslash and each quote character of the kind that encloses it
RECURSIVE Escaped(_, _)
Escaped(s, quote) ==
    IF s = "" THEN ""
    ELSE (IF CharAt(s, 1) = "\\" \/ CharAt(s, 1) = quote THEN "\\" ELSE "")
            \o CharAt(s, 1) \o Escaped(Suffix(s, 1), quote)

\* repr(s) for a str s: in double quotes when s holds an apostrophe and no
\* double quote, in apostrophes otherwise
StrRepr(s) ==
    LET quote == IF Contains(s, "'") /\ ~Contains(s, "\"") THEN "\"" ELSE "'"
    IN  quote \o Escaped(s, quote) \o quote

\* repr(v)
RECURSIVE Repr(_)
Repr(v) ==
    CASE ClassName(v) = "int" -> ToString(v[2])
      [] ClassName(v) = "float" -> (IF Len(v) = 3 THEN v[3] ELSE FloatStr(v[2]))
      [] ClassName(v) = "str" -> StrRepr(v[2])
      [] ClassName(v) = "bool" -> (IF v[2] THEN "True" ELSE "False")
      [] ClassName(v) = "NoneType" -> "None"
      [] ClassName(v) = "list" ->
            "[" \o Join([k \in 1..Len(v[2]) |-> Repr(v[2][k])], ", ") \o "]"
      [] ClassName(v) = "dict" ->
            "{" \o Join([k \in 1..Len(v[2]) |->
                            StrRepr(v[2][k][1]) \o ": " \o Repr(v[2][k][2])], ", ") \o "}"

\* '%s' % v
Str(v) == IF ClassName(v) = "str" THEN v[2] ELSE Repr(v)

\* '%s' % bound for self.min and self.max: <<>> is None
BoundStr(bound) == IF bound = <<>> THEN "None" ELSE Str(bound[1])

\* twice the number an int or a float stands for: a < b iff Twice(a) < Twice(b)
Twice(v) == IF ClassName(v) = "int" THEN 2 * v[2] ELSE v[2]

\* a > b and a < b for ints and floats: every comparison with nan is False,
\* inf is above and -inf below every other number, -0.0 equals 0
Greater(a, b) ==
    /\ ~IsNaN(a)
    /\ ~IsNaN(b)
    /\ IF IsPosInf(a) THEN ~IsPosInf(b)
       ELSE IF IsNegInf(a) \/ IsPosInf(b) THEN FALSE
       ELSE IF IsNegInf(b) THEN TRUE
       ELSE Twice(a) > Twice(b)
Less(a, b) == Greater(b, a)

\* "found '%s' of type %s" % (value, value.__class__.__name__)
Found(v) == "found '" \o Str(v) \o "' of type " \o ClassName(v)

-----------------------------------------------------------------------------
(* The filters (filtered_parser.py 43-182)                                 *)
(*                                                                         *)
(* A filter is <<"Number", min, max, require_int>> (min, max: <<>> for     *)
(* None, <<v>> for the number v), <<"Boolean">>, <<"String">>, <<"Null">>, *)
(* <<"Array", filter>>, <<"Options", <<filter, ...>>>> or                  *)
(* <<"Object", entries, ignore_more>> with entries, as Object.__init__     *)
(* stores them, << <<key, filter, optional>>, ... >> in insertion order.   *)

Verdict(check, reason) == [check |-> check, reason |-> reason]

\* Number.__call__
NumberFilter(f, v) ==
    LET min == f[2]
        max == f[3]
        require_int == f[4]
    IN  IF require_int /\ ClassName(v) # "int"
        THEN Verdict(FALSE, "expected int, " \o Found(v))
        ELSE IF ClassName(v) # "float" /\ ClassName(v) # "int"
        THEN Verdict(FALSE, "expected number, " \o Found(v))
        ELSE IF min # <<>> /\ Greater(min[1], v)
        THEN Verdict(FALSE, "expected number bigger than " \o BoundStr(min)
                                \o ", found " \o Str(v))
        ELSE IF max # <<>> /\ Less(max[1], v)
        THEN Verdict(FALSE, "expected number smaler than " \o BoundStr(min)
                                \o ", found " \o Str(v))
        ELSE Verdict(TRUE, "")

\* Boolean
BooleanFilter(v) == Verdict(ClassName(v) = "bool", "expected boolean, " \o Found(v))

\* String
StringFilter(v) == Verdict(ClassName(v) = "str", "expected string, " \o Found(v))

\* Null
NullFilter(v) == Verdict(ClassName(v) = "NoneType", "expected null, " \o Found(v))

\* key in value_keys / value[key] / value_keys.remove(key)
IndexOf(x, list) ==
    IF InList(x, list)
    THEN CHOOSE k \in 1..Len(list) : list[k] = x /\ \A h \in 1..(k - 1) : list[h] # x
    ELSE 0
RemoveNothing(x, list) == list
Remove(x, list) ==
    LET k == IndexOf(x, list)
    IN  IF k = 0 THEN list ELSE SubSeq(list, 1, k - 1) \o SubSeq(list, k + 1, Len(list))
Keys(pairs) == [k \in 1..Len(pairs) |-> pairs[k][1]]
Lookup(pairs, key) == pairs[IndexOf(key, Keys(pairs))][2]

RECURSIVE Filter(_, _)
RECURSIVE ArrayLoop(_, _, _)
RECURSIVE OptionsLoop(_, _, _, _)
RECURSIVE ObjectLoop(_, _, _, _, _)

\* Array.__call__: the loop from the element at position i (1-based)
ArrayLoop(child, items, i) ==
    IF i > Len(items) THEN Verdict(TRUE, "")
    ELSE LET r == Filter(child, items[i])
         IN  IF ~r.check THEN Verdict(FALSE, ToString(i - 1) \o ": " \o r.reason)
             ELSE ArrayLoop(child, items, i + 1)

\* Options.__call__: the loop from the option at position i
OptionsLoop(options, v, i, reasons) ==
    IF i > Len(options)
    THEN Verdict(FALSE, "Value not allowed (" \o Join(reasons, " or ") \o ").")
    ELSE LET r == Filter(options[i], v)
         IN  IF r.check THEN Verdict(TRUE, "")
             ELSE OptionsLoop(options, v, i + 1, Append(reasons, r.reason))

\* Object.__call__: the loop from the entry at position i, and what follows it
ObjectLoop(entries, ignore_more, pairs, i, value_keys) ==
    IF i > Len(entries)
    THEN IF Len(value_keys) = 0 \/ ignore_more THEN Verdict(TRUE, "")
         ELSE Verdict(FALSE, "unsupported key '" \o value_keys[1] \o "'")
    ELSE LET key == entries[i][1]
             child == entries[i][2]
             optional == entries[i][3]
         IN  IF InList(key, value_keys)
             THEN LET r == Filter(child, Lookup(pairs, key))
                  IN  IF ~r.check THEN Verdict(FALSE, key \o ": " \o r.reason)
                      ELSE ObjectLoop(entries, ignore_more, pairs, i + 1, Remove(key, value_keys))
             ELSE IF ~optional
             THEN Verdict(FALSE, "entry with key '" \o key \o "' required")
             ELSE ObjectLoop(entries, ignore_more, pairs, i + 1, value_keys)

\* filter(value): the pair (check, reason) the filter f returns for v
Filter(f, v) ==
    CASE f[1] = "Number" -> NumberFilter(f, v)
      [] f[1] = "Boolean" -> BooleanFilter(v)
      [] f[1] = "String" -> StringFilter(v)
      [] f[1] = "Null" -> NullFilter(v)
      [] f[1] = "Array" ->
            IF ClassName(v) = "list" THEN ArrayLoop(f[2], v[2], 1)
            ELSE Verdict(FALSE, "expected list, " \o Found(v))
      [] f[1] = "Options" -> OptionsLoop(f[2], v, 1, <<>>)
      [] f[1] = "Object" ->
            IF ClassName(v) = "dict" THEN ObjectLoop(f[2], f[3], v[2], 1, Keys(v[2]))
            ELSE Verdict(FALSE, "expected object, " \o Found(v))

-----------------------------------------------------------------------------
(* Specification SpecFilter: a filter applied to a JSON value              *)

JInt(n) == <<"int", n>>
JFloat(h) == <<"float", h>>
JStr(s) == <<"str", s>>
JBool(b) == <<"bool", b>>
JNone == <<"NoneType">>
JNaN == <<"float", 0, "nan">>
JInf == <<"float", 0, "inf">>
JNegInf == <<"float", 0, "-inf">>
JNegZero == <<"float", 0, "-0.0">>
JList(items) == <<"list", items>>
JDict(pairs) == <<"dict", pairs>>

Number(min, max, require_int) == <<"Number", min, max, require_int>>
Boolean == <<"Boolean">>
String == <<"String">>
Null == <<"Null">>
Array(child) == <<"Array", child>>
Options(options) == <<"Options", options>>
Object(entries, ignore_more) == <<"Object", entries, ignore_more>>

\* Object(...) of example.py 40-47, and the same with ignore_more=True
ExampleEntries ==
    << <<"id", Number(<<JInt(0)>>, <<>>, TRUE), FALSE>>,
       <<"description", String, TRUE>> >>

LeafFilters ==
    { Number(<<>>, <<>>, FALSE), Number(<<>>, <<>>, TRUE), Number(<<JInt(0)>>, <<>>, TRUE),
      Number(<<JInt(0)>>, <<JInt(5)>>, FALSE), Number(<<>>, <<JFloat(5)>>, FALSE),
      Boolean, String, Null }

Schemas ==
    LeafFilters
    \cup {Array(f) : f \in {Number(<<>>, <<>>, TRUE), String, Boolean}}
    \cup { Options(<<Number(<<>>, <<>>, TRUE), Number(<<>>, <<>>, FALSE)>>),
           Options(<<String, Null>>),
           Options(<<Number(<<JInt(0)>>, <<>>, TRUE), Boolean, Array(String)>>),
           Object(ExampleEntries, FALSE),
           Object(ExampleEntries, TRUE),
           Object(<< <<"a", Boolean, TRUE>>, <<"b", Array(Number(<<>>, <<>>, TRUE)), FALSE>> >>, FALSE),
           Array(Object(ExampleEntries, FALSE)),
           Array(Array(Number(<<>>, <<>>, TRUE))) }

Atoms ==
    { JInt(-1), JInt(0), JInt(5), JInt(6), JFloat(10), JFloat(5), JFloat(-1),
      JStr("x"), JStr(""), JBool(TRUE), JBool(FALSE), JNone, JNaN,
      JInf, JNegInf, JNegZero, JStr("a'b") }

ListItems == {JInt(1), JInt(2), JStr("x"), JFloat(10), JList(<<JInt(1)>>), JStr("a'b")}

RECURSIVE ListsUpTo(_, _)
ListsUpTo(items, n) ==
    IF n = 0 THEN {<<>>}
    ELSE LET shorter == ListsUpTo(items, n - 1)
         IN  shorter \cup {Append(l, e) : l \in shorter, e \in items}

Dicts ==
    { <<>>,
      << <<"id", JInt(5)>> >>,
      << <<"id", JInt(-1)>> >>,
      << <<"id", JFloat(10)>> >>,
      << <<"id", JInt(5)>>, <<"extra", JInt(1)>> >>,
      << <<"extra", JInt(1)>>, <<"id", JInt(5)>> >>,
      << <<"more", JInt(2)>>, <<"id", JInt(5)>>, <<"extra", JInt(1)>> >>,
      << <<"id", JInt(5)>>, <<"description", JStr("x")>> >>,
      << <<"description", JInt(1)>>, <<"id", JInt(-1)>> >>,
      << <<"description", JStr("x")>> >>,
      << <<"b", JList(<<JInt(1), JStr("x")>>)>> >>,
      << <<"b", JList(<<>>)>>, <<"a", JInt(1)>> >>,
      << <<"a", JBool(TRUE)>>, <<"b", JList(<<JInt(1)>>)>> >> }

JsonValues ==
    Atoms
    \cup {JList(l) : l \in ListsUpTo(ListItems, MaxListLen)}
    \cup {JList(<<JInt(1), JInt(2), JStr("x")>>), JList(<<JDict(<< <<"id", JInt(5)>> >>)>>),
          JList(<<JStr("'\""), JStr("\""), JStr("\\"), JNegZero, JInf, JNaN>>),
          JDict(<< <<"k'", JInt(1)>>, <<"'\"", JNegInf>>, <<"id", JStr("'")>> >>),
          JList(<<JDict(<< <<"id", JInt(5)>> >>), JDict(<< <<"id", JStr("x")>> >>)>>)}
    \cup {JDict(d) : d \in Dicts}

InitFilter ==
    /\ mode = "filter"
    /\ schema \in Schemas
    /\ json \in JsonValues
    /\ ret = <<>>
    /\ eval = <<>>
    /\ args = <<>>
    /\ PathUnused
    /\ RouterUnused
    /\ ContentTypeUnused
    /\ MethodUnused
    /\ ParserUnused
    /\ AuthUnused

\* ret = filter(value)
Validate ==
    /\ mode = "filter"
    /\ ret = <<>>
    /\ ret' = <<Filter(schema, json)>>
    /\ UNCHANGED <<mode, pathVars, args, routerVars, ctVars, filterVars, methodVars,
                   parserVars, authVars>>

SpecFilter == InitFilter /\ [][Validate]_vars

-----------------------------------------------------------------------------
(* Bytes and json.loads (filtered_parser.py 213-219)                       *)
(*                                                                         *)
(* A bytes object is a sequence of the numbers 0..255.  The byte strings   *)
(* of this model hold printable ASCII (the backquote, which a TLA+ string  *)
(* cannot hold, left out) and bytes from 248 on, which occur in no UTF-8   *)
(* text; JSON texts have the blank as their only whitespace, no backslash, *)
(* no exponent, and the fractions .0 and .5 only.                          *)

\* the printable ASCII characters chr(32) to chr(95) and chr(97) to chr(126)
AsciiLow == " !\"#$%&'()*+,-./0123456789:;<=>?@ABCDEFGHIJKLMNOPQRSTUVWXYZ[\\]^_"
AsciiHigh == "abcdefghijklmnopqrstuvwxyz{|}~"

\* ord(c), chr(n), s.encode()
Ord(c) == IF Contains(AsciiLow, c) THEN 32 + Find(AsciiLow, c) ELSE 97 + Find(AsciiHigh, c)
Chr(n) == IF n < 96 THEN CharAt(AsciiLow, n - 31) ELSE CharAt(AsciiHigh, n - 96)
Bytes(s) == [k \in 1..Len(s) |-> Ord(CharAt(s, k))]

\* b.decode('utf-8') raises UnicodeDecodeError
Utf8Raises(b) == \E k \in 1..Len(b) : b[k] >= 248

\* b.decode('utf-8'), when it does not raise
RECURSIVE Utf8Decode(_)
Utf8Decode(b) == IF Len(b) = 0 THEN "" ELSE Chr(b[1]) \o Utf8Decode(Tail(b))

\* s[k:k+1] for the 1-based position k: '' past the end
Peek(s, k) == IF k >= 1 /\ k <= Len(s) THEN CharAt(s, k) ELSE ""

\* WHITESPACE.match(s, idx).end()
RECURSIVE SkipWhitespace(_, _)
SkipWhitespace(s, idx) == IF Peek(s, idx) = " " THEN SkipWhitespace(s, idx + 1) ELSE idx

\* the end of the run of digits that starts at idx
RECURSIVE DigitsEnd(_, _)
DigitsEnd(s, idx) == IF Peek(s, idx) \in Digits THEN DigitsEnd(s, idx + 1) ELSE idx

\* what a scanner returns: the value and the position after it, or no match
NoMatch == [ok |-> FALSE, value |-> <<>>, end |-> 0]
Scanned(v, end) == [ok |-> TRUE, value |-> v, end |-> end]

\* NUMBER_RE.match(s, idx) and the int or float made of its groups
MatchNumber(s, idx) ==
    LET negative == Peek(s, idx) = "-"
        start == IF negative THEN idx + 1 ELSE idx
        intEnd == IF Peek(s, start) = "0" THEN start + 1 ELSE DigitsEnd(s, start)
        hasFrac == Peek(s, intEnd) = "." /\ Peek(s, intEnd + 1) \in Digits
        fracEnd == DigitsEnd(s, intEnd + 1)
        whole == IntBodyVal(SubSeq(s, start, intEnd - 1))
        halves == 2 * whole + (IF Peek(s, intEnd + 1) = "5" THEN 1 ELSE 0)
    IN  IF intEnd = start THEN NoMatch
        ELSE IF hasFrac
        THEN IF negative /\ halves = 0 THEN Scanned(<<"float", 0, "-0.0">>, fracEnd)
             ELSE Scanned(<<"float", IF negative THEN 0 - halves ELSE halves>>, fracEnd)
        ELSE Scanned(<<"int", IF negative THEN 0 - whole ELSE whole>>, intEnd)

\* scanstring(s, end): the string that starts after the opening quote
ScanString(s, end) ==
    LET close == Find(Suffix(s, end - 1), "\"")
    IN  IF close = -1 THEN NoMatch
        ELSE Scanned(<<"str", SubSeq(s, end, end + close - 1)>>, end + close + 1)

\* dict(pairs): a repeated key keeps its first position and its last value
RECURSIVE DictOf(_)
DictOf(pairs) ==
    IF Len(pairs) = 0 THEN <<>>
    ELSE LET before == DictOf(SubSeq(pairs, 1, Len(pairs) - 1))
             last == pairs[Len(pairs)]
             k == IndexOf(last[1], Keys(before))
         IN  IF k = 0 THEN Append(before, last) ELSE [before EXCEPT ![k] = last]

RECURSIVE ScanOnce(_, _)
RECURSIVE JSONObjectPairs(_, _, _)
RECURSIVE JSONArrayValues(_, _, _)

\* JSONObject: the loop over the pairs, end being after a key's opening quote
JSONObjectPairs(s, end, pairs) ==
    LET key == ScanString(s, end)
        colon == SkipWhitespace(s, key.end)
        item == ScanOnce(s, SkipWhitespace(s, colon + 1))
        after == SkipWhitespace(s, item.end)
        more == Append(pairs, <<key.value[2], item.value>>)
        next == SkipWhitespace(s, after + 1)
    IN  IF ~key.ok THEN NoMatch
        ELSE IF Peek(s, colon) # ":" THEN NoMatch
        ELSE IF ~item.ok THEN NoMatch
        ELSE IF Peek(s, after) = "}" THEN Scanned(<<"dict", DictOf(more)>>, after + 1)
        ELSE IF Peek(s, after) # "," THEN NoMatch
        ELSE IF Peek(s, next) # "\"" THEN NoMatch
        ELSE JSONObjectPairs(s, next + 1, more)

\* JSONArray: the loop over the values, end being the start of a value
JSONArrayValues(s, end, values) ==
    LET item == ScanOnce(s, end)
        after == SkipWhitespace(s, item.end)
        more == Append(values, item.value)
    IN  IF ~item.ok THEN NoMatch
        ELSE IF Peek(s, after) = "]" THEN Scanned(<<"list", more>>, after + 1)
        ELSE IF Peek(s, after) # "," THEN NoMatch
        ELSE JSONArrayValues(s, SkipWhitespace(s, after + 1), more)

\* scan_once(s, idx)
ScanOnce(s, idx) ==
    LET nextchar == Peek(s, idx)
        rest == Suffix(s, idx - 1)
        first == SkipWhitespace(s, idx + 1)
    IN  IF nextchar = "" THEN NoMatch
        ELSE IF nextchar = "\"" THEN ScanString(s, idx + 1)
        ELSE IF nextchar = "{"
        THEN IF Peek(s, first) = "}" THEN Scanned(<<"dict", <<>>>>, first + 1)
             ELSE IF Peek(s, first) # "\"" THEN NoMatch
             ELSE JSONObjectPairs(s, first + 1, <<>>)
        ELSE IF nextchar = "["
        THEN IF Peek(s, first) = "]" THEN Scanned(<<"list", <<>>>>, first + 1)
             ELSE JSONArrayValues(s, first, <<>>)
        ELSE IF StartsWith(rest, "null") THEN Scanned(<<"NoneType">>, idx + 4)
        ELSE IF StartsWith(rest, "true") THEN Scanned(<<"bool", TRUE>>, idx + 4)
        ELSE IF StartsWith(rest, "false") THEN Scanned(<<"bool", FALSE>>, idx + 5)
        ELSE IF MatchNumber(s, idx).ok THEN MatchNumber(s, idx)
        ELSE IF StartsWith(rest, "NaN") THEN Scanned(<<"float", 0, "nan">>, idx + 3)
        ELSE IF StartsWith(rest, "Infinity") THEN Scanned(<<"float", 0, "inf">>, idx + 8)
        ELSE IF StartsWith(rest, "-Infinity") THEN Scanned(<<"float", 0, "-inf">>, idx + 9)
        ELSE NoMatch

\* detect_encoding(b) for bytes without a zero byte: 'utf-16' when b starts
\* with a byte order mark of UTF-16, 'utf-8' otherwise
DetectEncoding(b) ==
    IF Len(b) >= 2 /\ SubSeq(b, 1, 2) \in {<<255, 254>>, <<254, 255>>} THEN "utf-16"
    ELSE "utf-8"

\* json.loads(b) for bytes b: the exception it raises ("" for none) and the
\* value.  The UTF-16 text of bytes of this model has a character from
\* U+2020 on for every two bytes after the mark, and begins no JSON value;
\* an odd number of bytes is truncated data.
Loads(b) ==
    IF DetectEncoding(b) = "utf-16"
    THEN [raises |-> IF Len(b) % 2 = 1 THEN "UnicodeDecodeError" ELSE "JSONDecodeError",
          value |-> <<>>]
    ELSE IF Utf8Raises(b) THEN [raises |-> "UnicodeDecodeError", value |-> <<>>]
    ELSE LET text == Utf8Decode(b)
             obj == ScanOnce(text, SkipWhitespace(text, 1))
         IN  IF obj.ok /\ SkipWhitespace(text, obj.end) = Len(text) + 1
             THEN [raises |-> "", value |-> obj.value]
             ELSE [raises |-> "JSONDecodeError", value |-> <<>>]

\* stream.read(size) on the stream [body, pos, reads]: the bytes returned
ReadBytes(stream, size) ==
    LET stop == IF size < 0 THEN Len(stream.body)
                ELSE Min(stream.pos + size, Len(stream.body))
    IN  SubSeq(stream.body, stream.pos + 1, stop)

\* the stream after stream.read(size)
AfterRead(stream, size) ==
    [body |-> stream.body,
     pos |-> stream.pos + Len(ReadBytes(stream, size)),
     reads |-> Append(stream.reads, size)]

-----------------------------------------------------------------------------
(* Specification SpecParser: FilteredJSONParser.__call__ handling one      *)
(* request (filtered_parser.py 210-229), one step per check                *)

\* how a call ended: not yet, by returning the app's result, by raising
\* HTTPException(code, message, headers=headers), by raising another exception
NoResult == [kind |-> "none", code |-> 0, message |-> "", headers |-> <<>>]
AppResult == [kind |-> "app", code |-> 0, message |-> "", headers |-> <<>>]
HTTPExceptionWith(code, message, headers) ==
    [kind |-> "HTTPException", code |-> code, message |-> message, headers |-> headers]
ExceptionOf(exc) == [kind |-> exc, code |-> 0, message |-> "", headers |-> <<>>]

\* a FilteredJSONParser(app, f) that has not been called
IdleParser(f) ==
    [pc |-> "idle",
     filter |-> f,                 \* self.filter
     environ |-> [CONTENT_TYPE |-> <<>>, CONTENT_LENGTH |-> <<>>],
     raw_content |-> <<>>,         \* request_data.raw_content: <<>> while not set
     json_content |-> <<>>,        \* request_data.json_content: <<>> while not set
     trail |-> <<>>,               \* the checks made so far
     filtered |-> <<>>,            \* the values self.filter was called with
     seen |-> <<>>,                \* json_content as the app read it
     outcome |-> NoResult]

ParserFilters ==
    { Object(ExampleEntries, FALSE),
      Array(Number(<<>>, <<>>, TRUE)),
      Number(<<JInt(0)>>, <<JInt(5)>>, FALSE) }

ParserContentTypes ==
    { <<>>, <<"application/json">>, <<"application/vnd.api+json">>, <<"text/plain">>,
      <<"json">>, <<"a/x+json/y">>, <<"application/jsonx">>, <<"a/x+json+y">> }

ParserBodies ==
    { Bytes(""), Bytes("{"), Bytes("5"), Bytes(" 5 "), Bytes("2.5"), Bytes("NaN"),
      Bytes("null"), Bytes("[1, 2]"), Bytes("[1, \"x\"]"), Bytes("[1,]"),
      Bytes("{\"id\": 5}"), Bytes("{\"id\": -1}"), Bytes("{\"id\": 5} x"),
      Bytes("{\"id\": 5, \"extra\": 1}"), Bytes("{\"id\": 1, \"id\": 5}"),
      <<255>>, Bytes("\"") \o <<255>> \o Bytes("\""),
      Bytes("Infinity"), Bytes("-Infinity"), Bytes("-0.0"), Bytes("[-0.0, Infinity, \"'\"]"),
      Bytes("{\"id\": Infinity}"), Bytes("{\"id\": [\"a'b\"]}"),
      <<255, 254>>, <<254, 255, 48, 48>>, <<255, 254, 49>>, <<254, 254>> }

\* the CONTENT_LENGTH values a request with this body is sent with
ContentLengths(body) ==
    {<<>>, <<"0">>, <<"1">>, <<"99">>, <<"x">>, <<ToString(Len(body))>>}

InitParser ==
    /\ mode = "parser"
    /\ \E f \in ParserFilters : parser = IdleParser(f)
    /\ input = [body |-> <<>>, pos |-> 0, reads |-> <<>>]
    /\ ret = <<>>
    /\ args = <<>>
    /\ PathUnused
    /\ RouterUnused
    /\ ContentTypeUnused
    /\ FilterUnused
    /\ MethodUnused
    /\ AuthUnused

\* the parser is called with a request
ParserReceive ==
    /\ mode = "parser"
    /\ parser.pc = "idle"
    /\ \E ct \in ParserContentTypes, body \in ParserBodies :
        \E cl \in ContentLengths(body) :
            /\ parser' = [parser EXCEPT !.pc = "present",
                                        !.environ = [CONTENT_TYPE |-> ct, CONTENT_LENGTH |-> cl]]
            /\ input' = [body |-> body, pos |-> 0, reads |-> <<>>]
    /\ UNCHANGED <<mode, pathVars, ret, args, routerVars, ctVars, filterVars, methodVars,
                   authVars>>

\* the call p ended raising exc
Ended(p, exc) == [p EXCEPT !.pc = "done", !.outcome = exc]

\* if 'CONTENT_TYPE' in environ ... else: raise HTTPException(400, message='Body required')
CheckedPresent(p) ==
    LET q == [p EXCEPT !.trail = Append(@, "present")]
    IN  IF p.environ.CONTENT_TYPE = <<>>
        THEN Ended(q, HTTPExceptionWith(400, "Body required", <<>>))
        ELSE [q EXCEPT !.pc = "json"]

\* if 'json' in environ['CONTENT_TYPE'].split('/')[1].split('+') ... else: raise 415
CheckedJson(p) ==
    LET q == [p EXCEPT !.trail = Append(@, "json")]
        parts == Split(p.environ.CONTENT_TYPE[1], "/")
    IN  IF Len(parts) < 2 THEN Ended(q, ExceptionOf("IndexError"))
        ELSE IF InList("json", Split(parts[2], "+")) THEN [q EXCEPT !.pc = "read"]
        ELSE Ended(q, HTTPExceptionWith(415, "Only json content is allowed.", <<>>))

\* int(environ.get('CONTENT_LENGTH', 0)) raises ValueError
ReadSizeRaises(environ) ==
    environ.CONTENT_LENGTH # <<>> /\ IntRaises(environ.CONTENT_LENGTH[1])

\* int(environ.get('CONTENT_LENGTH', 0))
ReadSize(environ) ==
    IF environ.CONTENT_LENGTH = <<>> THEN 0 ELSE IntValue(environ.CONTENT_LENGTH[1])

\* self.request_data.raw_content = environ['wsgi.input'].read(...), on the stream
HasRead(p, stream) ==
    LET q == [p EXCEPT !.trail = Append(@, "read")]
    IN  IF ReadSizeRaises(p.environ) THEN Ended(q, ExceptionOf("ValueError"))
        ELSE [q EXCEPT !.pc = "parse",
                       !.raw_content = <<ReadBytes(stream, ReadSize(p.environ))>>]

\* HasParsed calling the filter on the raw content when loads fails
HasParsedLeniently(p) ==
    LET q == [p EXCEPT !.trail = Append(@, "parse")]
        loaded == Loads(p.raw_content[1])
    IN  IF loaded.raises = "" THEN [q EXCEPT !.pc = "filter", !.json_content = <<loaded.value>>]
        ELSE [q EXCEPT !.pc = "filter", !.json_content = <<JNone>>]

\* self.request_data.json_content = loads(self.request_data.raw_content)
HasParsed(p) ==
    LET q == [p EXCEPT !.trail = Append(@, "parse")]
        loaded == Loads(p.raw_content[1])
    IN  IF loaded.raises = "JSONDecodeError"
        THEN Ended(q, HTTPExceptionWith(422, "Invalid JSON", <<>>))
        ELSE IF loaded.raises # "" THEN Ended(q, ExceptionOf(loaded.raises))
        ELSE [q EXCEPT !.pc = "filter", !.json_content = <<loaded.value>>]

\* check, reason = self.filter(self.request_data.json_content)
HasFiltered(p) ==
    LET q == [p EXCEPT !.trail = Append(@, "filter"),
                       !.filtered = Append(@, p.json_content[1])]
        verdict == Filter(p.filter, p.json_content[1])
    IN  IF verdict.check THEN [q EXCEPT !.pc = "app"]
        ELSE Ended(q, HTTPExceptionWith(400, verdict.reason, <<>>))

\* return self.app(environ, start_response), the app reading parser.json_content
HasForwarded(p) ==
    [p EXCEPT !.pc = "done", !.trail = Append(@, "app"),
              !.seen = p.json_content, !.outcome = AppResult]

CheckPresent ==
    /\ mode = "parser"
    /\ parser.pc = "present"
    /\ parser' = CheckedPresent(parser)
    /\ UNCHANGED <<mode, pathVars, ret, args, routerVars, ctVars, filterVars, methodVars,
                   input, authVars>>

CheckJson ==
    /\ mode = "parser"
    /\ parser.pc = "json"
    /\ parser' = CheckedJson(parser)
    /\ UNCHANGED <<mode, pathVars, ret, args, routerVars, ctVars, filterVars, methodVars,
                   input, authVars>>

ReadBody ==
    /\ mode = "parser"
    /\ parser.pc = "read"
    /\ parser' = HasRead(parser, input)
    /\ input' = IF ReadSizeRaises(parser.environ) THEN input
                ELSE AfterRead(input, ReadSize(parser.environ))
    /\ UNCHANGED <<mode, pathVars, ret, args, routerVars, ctVars, filterVars, methodVars,
                   authVars>>

ParseBody ==
    /\ mode = "parser"
    /\ parser.pc = "parse"
    /\ parser' = HasParsed(parser)
    /\ UNCHANGED <<mode, pathVars, ret, args, routerVars, ctVars, filterVars, methodVars,
                   input, authVars>>

ApplyFilter ==
    /\ mode = "parser"
    /\ parser.pc = "filter"
    /\ parser' = HasFiltered(parser)
    /\ UNCHANGED <<mode, pathVars, ret, args, routerVars, ctVars, filterVars, methodVars,
                   input, authVars>>

InvokeApp ==
    /\ mode = "parser"
    /\ parser.pc = "app"
    /\ parser' = HasForwarded(parser)
    /\ UNCHANGED <<mode, pathVars, ret, args, routerVars, ctVars, filterVars, methodVars,
                   input, authVars>>

NextParser ==
    \/ ParserReceive
    \/ CheckPresent
    \/ CheckJson
    \/ ReadBody
    \/ ParseBody
    \/ ApplyFilter
    \/ InvokeApp

SpecParser == InitParser /\ [][NextParser]_vars

-----------------------------------------------------------------------------
(* Specification SpecAuth: one BasicAuth instance called by two threads    *)
(* (basic_auth.py 45-69); request_data is a threading.local, so each       *)
(* thread has a user attribute of its own, which lasts from one request of *)
(* the thread to the next.                                                 *)

Base64Alphabet == "ABCDEFGHIJKLMNOPQRSTUVWXYZabcdefghijklmnopqrstuvwxyz0123456789+/"

\* binascii.a2b_base64(s) from the character at i on: quad_pos data characters
\* of the current group of four are read, leftchar holds their bits not yet
\* written, pads counts the '=' seen since the last data character
RECURSIVE A2BBase64(_, _, _, _, _, _)
A2BBase64(s, i, quad_pos, leftchar, pads, out) ==
    IF i > Len(s)
    THEN IF quad_pos # 0 THEN [raises |-> "binascii.Error", value |-> <<>>]
         ELSE [raises |-> "", value |-> out]
    ELSE LET this_ch == Find(Base64Alphabet, CharAt(s, i))
         IN  IF CharAt(s, i) = "="
             THEN IF quad_pos >= 2 /\ quad_pos + pads + 1 >= 4
                  THEN [raises |-> "", value |-> out]
                  ELSE A2BBase64(s, i + 1, quad_pos, leftchar,
                                 IF quad_pos >= 2 THEN pads + 1 ELSE pads, out)
             ELSE IF this_ch = -1 THEN A2BBase64(s, i + 1, quad_pos, leftchar, pads, out)
             ELSE CASE quad_pos = 0 -> A2BBase64(s, i + 1, 1, this_ch, 0, out)
                    [] quad_pos = 1 ->
                        A2BBase64(s, i + 1, 2, this_ch % 16, 0,
                                  Append(out, leftchar * 4 + this_ch \div 16))
                    [] quad_pos = 2 ->
                        A2BBase64(s, i + 1, 3, this_ch % 4, 0,
                                  Append(out, leftchar * 16 + this_ch \div 4))
                    [] quad_pos = 3 ->
                        A2BBase64(s, i + 1, 0, 0, 0, Append(out, leftchar * 64 + this_ch))

\* b64decode(s)
B64Decode(s) == A2BBase64(s, 1, 0, 0, 0, <<>>)

\* the accounts is_correct(user, passwd) answers True for
Accounts == {<<"u", "p">>, <<"v", "q">>, <<"u", "p:q">>}
IsCorrect(user, passwd) == <<user, passwd>> \in Accounts

\* self.realm
Realm == "Access to content"

\* a thread that has not called the BasicAuth
IdleAuth ==
    [pc |-> "idle",
     header |-> <<>>,      \* environ['HTTP_AUTHORIZATION']: <<>> when absent
     user |-> <<>>,        \* request_data.user of this thread: <<>> while not set
     seen |-> <<>>,        \* the user property as the wrapped app read it
     invoked |-> FALSE,    \* the wrapped app was called
     outcome |-> NoResult]

AuthHeaders ==
    {<<>>} \cup {<<h>> : h \in
        { "Basic dTpw", "Basic djpx", "Basic dTpx", "Basic dTpwOnE=", "Basic dQ==",
          "Basic dTo=", "Basic Og==", "Basic ", "Basic dTp", "Basic d", "Basic /w==",
          "Basic dT pw", "Basic dQ==dTpw", "basic dTpw", "Basic", "BasicdTpw",
          "Bearer dTpw", "" }}

\* the call a ended raising HTTPException(400, message='Authentication not processable')
NotProcessable(a) ==
    [a EXCEPT !.pc = "done",
              !.outcome = HTTPExceptionWith(400, "Authentication not processable", <<>>)]

\* BasicAuth.__call__ up to the call of the wrapped app
Authenticated(a) ==
    IF a.header # <<>> /\ StartsWith(a.header[1], "Basic ")
    THEN LET byte_string == B64Decode(Suffix(a.header[1], 6))
             string == Utf8Decode(byte_string.value)
             i == Find(string, ":")
             user == Prefix(string, i)
             passwd == Suffix(string, i + 1)
         IN  IF byte_string.raises # "" \/ Utf8Raises(byte_string.value) THEN NotProcessable(a)
             ELSE IF i = -1 THEN NotProcessable(a)
             ELSE IF IsCorrect(user, passwd) THEN [a EXCEPT !.user = <<user>>, !.pc = "app"]
             ELSE [a EXCEPT !.user = <<user>>, !.pc = "done",
                            !.outcome = HTTPExceptionWith(401, "Wrong user or password", <<>>)]
    ELSE [a EXCEPT !.pc = "done",
                   !.outcome = HTTPExceptionWith(401, "Authentication required",
                        << <<"WWW-Authenticate", "Basic realm=\"" \o Realm \o "\"">> >>)]

\* the user property read as if request_data were one object for all threads
RequestDataUserShared(au, t) == au[1].user

\* the user property read in thread t: self.request_data.user
RequestDataUser(au, t) == au[t].user

\* the wrapped app, called in thread t, reads the user property and returns,
\* or raises a ValueError, which the except clause of __call__ turns into 400
AppRan(au, t, raised) ==
    LET a == [au[t] EXCEPT !.invoked = TRUE, !.seen = RequestDataUser(au, t)]
    IN  IF raised THEN NotProcessable(a)
        ELSE [a EXCEPT !.pc = "done", !.outcome = AppResult]

InitAuth ==
    /\ mode = "auth"
    /\ auth = [t \in Threads |-> IdleAuth]
    /\ ret = <<>>
    /\ args = <<>>
    /\ PathUnused
    /\ RouterUnused
    /\ ContentTypeUnused
    /\ FilterUnused
    /\ MethodUnused
    /\ ParserUnused

\* thread t calls the BasicAuth with a request
AuthReceive(t) ==
    /\ mode = "auth"
    /\ auth[t].pc \in {"idle", "done"}
    /\ \E h \in AuthHeaders :
            auth' = [auth EXCEPT ![t] = [IdleAuth EXCEPT !.pc = "auth", !.header = h,
                                                         !.user = auth[t].user]]
    /\ UNCHANGED <<mode, pathVars, ret, args, routerVars, ctVars, filterVars, methodVars,
                   parserVars>>

\* thread t checks the credentials
Authenticate(t) ==
    /\ mode = "auth"
    /\ auth[t].pc = "auth"
    /\ auth' = [auth EXCEPT ![t] = Authenticated(auth[t])]
    /\ UNCHANGED <<mode, pathVars, ret, args, routerVars, ctVars, filterVars, methodVars,
                   parserVars>>

\* thread t runs the wrapped app
AuthApp(t) ==
    /\ mode = "auth"
    /\ auth[t].pc = "app"
    /\ \E raised \in BOOLEAN : auth' = [auth EXCEPT ![t] = AppRan(auth, t, raised)]
    /\ UNCHANGED <<mode, pathVars, ret, args, routerVars, ctVars, filterVars, methodVars,
                   parserVars>>

NextAuth == \E t \in Threads : AuthReceive(t) \/ Authenticate(t) \/ AuthApp(t)

SpecAuth == InitAuth /\ [][NextAuth]_vars

-----------------------------------------------------------------------------
(* Specification SpecEval: one filter instance shared by two threads, each *)
(* evaluating it on values of its own; a thread takes one step per filter  *)
(* call, so that the calls of the two evaluations interleave.              *)
(*                                                                         *)
(* The activation of a filter call holds the call's locals: the loop       *)
(* position i (1-based), Options' reasons and Object's value_keys.         *)

\* Call with an Object that lists the keys of the value last to first
CallKeysReversed(f, v) ==
    [filter |-> f, value |-> v, i |-> 1, reasons |-> <<>>,
     value_keys |-> IF f[1] = "Object" /\ ClassName(v) = "dict"
                    THEN [k \in 1..Len(v[2]) |-> Keys(v[2])[Len(v[2]) + 1 - k]]
                    ELSE <<>>]

\* the locals of filter(value) before its first statement
Call(f, v) ==
    [filter |-> f, value |-> v, i |-> 1, reasons |-> <<>>,
     value_keys |-> IF f[1] = "Object" /\ ClassName(v) = "dict" THEN Keys(v[2]) ELSE <<>>]

\* what an activation does next: return, call a child filter, or go on
Returning(verdict) == [step |-> "return", verdict |-> verdict, filter |-> <<>>, value |-> <<>>]
Calling(f, v) == [step |-> "call", verdict |-> <<>>, filter |-> f, value |-> v]
Continuing(fr) == [step |-> "continue", verdict |-> <<>>, filter |-> <<>>, value |-> fr]

\* Proceed with an Options that joins its reasons with ' and '
ProceedOptionsJoinedWithAnd(fr) ==
    LET f == fr.filter
        v == fr.value
    IN  CASE f[1] = "Number" -> Returning(NumberFilter(f, v))
          [] f[1] = "Boolean" -> Returning(BooleanFilter(v))
          [] f[1] = "String" -> Returning(StringFilter(v))
          [] f[1] = "Null" -> Returning(NullFilter(v))
          [] f[1] = "Array" ->
                IF ClassName(v) # "list"
                THEN Returning(Verdict(FALSE, "expected list, " \o Found(v)))
                ELSE IF fr.i > Len(v[2]) THEN Returning(Verdict(TRUE, ""))
                ELSE Calling(f[2], v[2][fr.i])
          [] f[1] = "Options" ->
                IF fr.i > Len(f[2])
                THEN Returning(Verdict(FALSE, "Value not allowed ("
                                                \o Join(fr.reasons, " and ") \o ")."))
                ELSE Calling(f[2][fr.i], v)
          [] f[1] = "Object" ->
                IF ClassName(v) # "dict"
                THEN Returning(Verdict(FALSE, "expected object, " \o Found(v)))
                ELSE IF fr.i > Len(f[2])
                THEN IF Len(fr.value_keys) = 0 \/ f[3] THEN Returning(Verdict(TRUE, ""))
                     ELSE Returning(Verdict(FALSE, "unsupported key '"
                                                        \o fr.value_keys[1] \o "'"))
                ELSE LET key == f[2][fr.i][1]
                         optional == f[2][fr.i][3]
                     IN  IF InList(key, fr.value_keys)
                         THEN Calling(f[2][fr.i][2], Lookup(v[2], key))
                         ELSE IF ~optional
                         THEN Returning(Verdict(FALSE, "entry with key '" \o key
                                                            \o "' required"))
                         ELSE Continuing([fr EXCEPT !.i = @ + 1])

\* the activation fr at the head of its loop
Proceed(fr) ==
    LET f == fr.filter
        v == fr.value
    IN  CASE f[1] = "Number" -> Returning(NumberFilter(f, v))
          [] f[1] = "Boolean" -> Returning(BooleanFilter(v))
          [] f[1] = "String" -> Returning(StringFilter(v))
          [] f[1] = "Null" -> Returning(NullFilter(v))
          [] f[1] = "Array" ->
                IF ClassName(v) # "list"
                THEN Returning(Verdict(FALSE, "expected list, " \o Found(v)))
                ELSE IF fr.i > Len(v[2]) THEN Returning(Verdict(TRUE, ""))
                ELSE Calling(f[2], v[2][fr.i])
          [] f[1] = "Options" ->
                IF fr.i > Len(f[2])
                THEN Returning(Verdict(FALSE, "Value not allowed ("
                                                \o Join(fr.reasons, " or ") \o ")."))
                ELSE Calling(f[2][fr.i], v)
          [] f[1] = "Object" ->
                IF ClassName(v) # "dict"
                THEN Returning(Verdict(FALSE, "expected object, " \o Found(v)))
                ELSE IF fr.i > Len(f[2])
                THEN IF Len(fr.value_keys) = 0 \/ f[3] THEN Returning(Verdict(TRUE, ""))
                     ELSE Returning(Verdict(FALSE, "unsupported key '"
                                                        \o fr.value_keys[1] \o "'"))
                ELSE LET key == f[2][fr.i][1]
                         optional == f[2][fr.i][3]
                     IN  IF InList(key, fr.value_keys)
                         THEN Calling(f[2][fr.i][2], Lookup(v[2], key))
                         ELSE IF ~optional
                         THEN Returning(Verdict(FALSE, "entry with key '" \o key
                                                            \o "' required"))
                         ELSE Continuing([fr EXCEPT !.i = @ + 1])

\* Resume with an Array that goes on after a rejected element
ResumeArrayIgnoresRejection(fr, r) ==
    LET f == fr.filter
    IN  CASE f[1] = "Array" -> Continuing([fr EXCEPT !.i = @ + 1])
          [] f[1] = "Options" ->
                IF r.check THEN Returning(Verdict(TRUE, ""))
                ELSE Continuing([fr EXCEPT !.i = @ + 1, !.reasons = Append(@, r.reason)])
          [] f[1] = "Object" ->
                LET key == f[2][fr.i][1]
                IN  IF ~r.check THEN Returning(Verdict(FALSE, key \o ": " \o r.reason))
                    ELSE Continuing([fr EXCEPT !.i = @ + 1,
                                               !.value_keys = Remove(key, @)])

\* the activation fr when the child filter it called has returned r
Resume(fr, r) ==
    LET f == fr.filter
    IN  CASE f[1] = "Array" ->
                IF ~r.check
                THEN Returning(Verdict(FALSE, ToString(fr.i - 1) \o ": " \o r.reason))
                ELSE Continuing([fr EXCEPT !.i = @ + 1])
          [] f[1] = "Options" ->
                IF r.check THEN Returning(Verdict(TRUE, ""))
                ELSE Continuing([fr EXCEPT !.i = @ + 1, !.reasons = Append(@, r.reason)])
          [] f[1] = "Object" ->
                LET key == f[2][fr.i][1]
                IN  IF ~r.check THEN Returning(Verdict(FALSE, key \o ": " \o r.reason))
                    ELSE Continuing([fr EXCEPT !.i = @ + 1,
                                               !.value_keys = Remove(key, @)])

Front(stack) == SubSeq(stack, 1, Len(stack) - 1)

\* the run of a thread from its innermost activation up to its next filter
\* call or up to the return of its outermost one: the stack it is left with,
\* <<r>> when the outermost call returned r, and the call it made
RECURSIVE Run(_)
RECURSIVE Deliver(_, _)
Run(stack) ==
    LET p == Proceed(stack[Len(stack)])
    IN  CASE p.step = "call" ->
                [stack |-> Append(stack, Call(p.filter, p.value)), result |-> <<>>,
                 called |-> << <<Len(stack), p.filter, p.value>> >>]
          [] p.step = "continue" -> Run(Append(Front(stack), p.value))
          [] p.step = "return" -> Deliver(Front(stack), p.verdict)
Deliver(stack, r) ==
    IF stack = <<>> THEN [stack |-> <<>>, result |-> <<r>>, called |-> <<>>]
    ELSE LET q == Resume(stack[Len(stack)], r)
         IN  IF q.step = "return" THEN Deliver(Front(stack), q.verdict)
             ELSE Run(Append(Front(stack), q.value))

\* a thread that is not evaluating; a thread that has just called filter(value)
IdleEval == [pc |-> "idle", value |-> <<>>, stack |-> <<>>, calls |-> <<>>, result |-> <<>>]
Begun(f, v) ==
    [pc |-> "running", value |-> v, stack |-> <<Call(f, v)>>,
     calls |-> << <<0, f, v>> >>, result |-> <<>>]

\* AfterStep with an Object that takes the keys it has checked out of the value
AfterStepConsumingValue(e) ==
    LET n == Run(e.stack)
    IN  [pc |-> IF n.result = <<>> THEN "running" ELSE "done",
         value |-> IF ClassName(e.value) = "dict" /\ Len(e.value[2]) > 0 /\ Len(e.calls) > 1
                   THEN JDict(Tail(e.value[2])) ELSE e.value,
         stack |-> n.stack,
         calls |-> e.calls \o n.called,
         result |-> n.result]

\* the evaluation e one step later
AfterStep(e) ==
    LET n == Run(e.stack)
    IN  [pc |-> IF n.result = <<>> THEN "running" ELSE "done",
         value |-> e.value,
         stack |-> n.stack,
         calls |-> e.calls \o n.called,
         result |-> n.result]

EvalSchemas ==
    { String,
      Array(Number(<<>>, <<>>, TRUE)),
      Array(Array(Number(<<>>, <<>>, TRUE))),
      Options(<<Number(<<>>, <<>>, TRUE), Number(<<>>, <<>>, FALSE)>>),
      Options(<<Number(<<JInt(0)>>, <<>>, TRUE), Boolean, Array(String)>>),
      Object(ExampleEntries, FALSE),
      Object(ExampleEntries, TRUE),
      Object(<< <<"a", Boolean, TRUE>>, <<"b", Array(Number(<<>>, <<>>, TRUE)), FALSE>> >>, FALSE),
      Object(<< <<"a", Boolean, TRUE>>, <<"id", Options(<<String, Null>>), TRUE>>,
                <<"b", Number(<<>>, <<>>, FALSE), TRUE>> >>, FALSE),
      Array(Object(ExampleEntries, FALSE)) }

EvalValues ==
    { JInt(5), JFloat(10), JStr("x"), JBool(TRUE),
      JList(<<>>), JList(<<JInt(1), JInt(2)>>), JList(<<JInt(1), JInt(2), JStr("x")>>),
      JList(<<JStr("x"), JInt(1)>>), JList(<<JStr("x"), JStr("x")>>),
      JList(<<JList(<<JInt(1)>>), JList(<<JInt(1), JStr("x")>>), JInt(1)>>),
      JList(<<JDict(<< <<"id", JInt(5)>> >>), JDict(<< <<"id", JStr("x")>> >>)>>),
      JDict(<<>>),
      JDict(<< <<"id", JInt(5)>> >>),
      JDict(<< <<"id", JInt(-1)>> >>),
      JDict(<< <<"id", JInt(5)>>, <<"extra", JInt(1)>> >>),
      JDict(<< <<"more", JInt(2)>>, <<"id", JInt(5)>>, <<"extra", JInt(1)>> >>),
      JDict(<< <<"id", JInt(5)>>, <<"description", JStr("x")>> >>),
      JDict(<< <<"description", JInt(1)>>, <<"id", JInt(-1)>> >>),
      JDict(<< <<"description", JInt(1)>> >>),
      JDict(<< <<"b", JInt(1)>>, <<"id", JInt(5)>>, <<"a", JInt(1)>> >>),
      JDict(<< <<"b", JStr("x")>>, <<"a", JBool(TRUE)>>, <<"c", JInt(1)>> >>),
      JDict(<< <<"b", JList(<<JInt(1), JStr("x")>>)>>, <<"a", JBool(TRUE)>> >>),
      JDict(<< <<"c", JInt(1)>>, <<"b", JList(<<JInt(1)>>)>>, <<"d", JInt(1)>> >>) }

InitEval ==
    /\ mode = "eval"
    /\ schema \in EvalSchemas
    /\ json = <<>>
    /\ eval = [t \in Threads |-> IdleEval]
    /\ ret = <<>>
    /\ args = <<>>
    /\ PathUnused
    /\ RouterUnused
    /\ ContentTypeUnused
    /\ MethodUnused
    /\ ParserUnused
    /\ AuthUnused

\* thread t calls filter(value) on the shared filter
Begin(t) ==
    /\ mode = "eval"
    /\ eval[t].pc \in {"idle", "done"}
    /\ \E v \in EvalValues : eval' = [eval EXCEPT ![t] = Begun(schema, v)]
    /\ UNCHANGED <<mode, pathVars, ret, args, routerVars, ctVars, schema, json,
                   methodVars, parserVars, authVars>>

\* thread t runs up to its next filter call or to the end of its evaluation
Step(t) ==
    /\ mode = "eval"
    /\ eval[t].pc = "running"
    /\ eval' = [eval EXCEPT ![t] = AfterStep(eval[t])]
    /\ UNCHANGED <<mode, pathVars, ret, args, routerVars, ctVars, schema, json,
                   methodVars, parserVars, authVars>>

NextEval == \E t \in Threads : Begin(t) \/ Step(t)

SpecEval == InitEval /\ [][NextEval]_vars

-----------------------------------------------------------------------------
(* Properties of PathRule.check                                            *)

\* the path p is value[i], value[i+1], ... laid end to end, where a converter
\* may stand for any substring it parses
RECURSIVE Decomposes(_, _, _)
Decomposes(value, i, p) ==
    IF i > Len(value) THEN p = ""
    ELSE IF i % 2 = 1 THEN
        StartsWith(p, value[i]) /\ Decomposes(value, i + 1, Suffix(p, Len(value[i])))
    ELSE \E n \in 0..Len(p) :
            /\ ~ConvRaises(value[i], Prefix(p, n))
            /\ Decomposes(value, i + 1, Suffix(p, n))

\* as Decomposes, but the substring of a converter that is not last ends where
\* the next literal occurs first, and the substring of a last converter is
\* all that remains
RECURSIVE DecomposesAtFirst(_, _, _)
DecomposesAtFirst(value, i, p) ==
    IF i > Len(value) THEN p = ""
    ELSE IF i % 2 = 1 THEN
        StartsWith(p, value[i]) /\ DecomposesAtFirst(value, i + 1, Suffix(p, Len(value[i])))
    ELSE \E n \in 0..Len(p) :
            /\ IF i = Len(value) THEN n = Len(p)
               ELSE /\ StartsWith(Suffix(p, n), value[i + 1])
                    /\ \A m \in 0..(n - 1) : ~StartsWith(Suffix(p, m), value[i + 1])
            /\ ~ConvRaises(value[i], Prefix(p, n))
            /\ DecomposesAtFirst(value, i + 1, Suffix(p, n))

\* C1 as stated: check returns True iff the path decomposes into the
\* pattern's literals interleaved with substrings the converters parse, with
\* nothing left over.
C1_AnyDecomposition ==
    (mode = "path" /\ ret # <<>>) => (ret[1] <=> Decomposes(pattern, 1, path))

\* C1 amended: check returns True iff the path decomposes into the pattern's
\* literals interleaved with substrings the converters parse, where the
\* substring of each converter that is not last ends at the first occurrence
\* of the next literal and that of a last converter is the whole remainder.
C1_FirstOccurrenceDecomposition ==
    (mode = "path" /\ ret # <<>>) => (ret[1] <=> DecomposesAtFirst(pattern, 1, path))

C1_Witness ==
    /\ mode = "path" /\ ret = <<FALSE>>
    /\ Len(pattern) = 3
    /\ Decomposes(pattern, 1, path)

\* C2 as stated: the pattern ('/id/', int, '/name/', str) rejects
\* '/id/42/name/joe/extra' and rejects '/id/abc/name/joe'.
C2_RejectsTrailingRemainder ==
    (mode = "path" /\ ret # <<>> /\ pattern = IdNamePattern /\ path \in {PathExtra, PathAbc})
        => ret = <<FALSE>>

\* C2 amended: the pattern ('/id/', int, '/name/', str) accepts
\* '/id/42/name/joe/extra' with the captured values [42, 'joe/extra'], its
\* last converter taking the whole remainder, and rejects '/id/abc/name/joe';
\* a trailing remainder is rejected after a last literal:
\* ('/id/', int, '/name') rejects '/id/42/name/extra'.
C2_LastConverterTakesRemainder ==
    (mode = "path" /\ ret # <<>>) =>
        /\ (pattern = IdNamePattern /\ path = PathExtra) =>
                (ret = <<TRUE>> /\ args = << <<"int", 42>>, <<"str", "joe/extra">> >>)
        /\ (pattern = IdNamePattern /\ path = PathJoe) =>
                (ret = <<TRUE>> /\ args = << <<"int", 42>>, <<"str", "joe">> >>)
        /\ (pattern = IdNamePattern /\ path = PathAbc) => ret = <<FALSE>>
        /\ (pattern = <<"/id/", "int", "/name">> /\ path = "/id/42/name/extra") => ret = <<FALSE>>

C2_Witness ==
    mode = "path" /\ pattern = IdNamePattern /\ path = PathExtra /\ ret = <<TRUE>>

-----------------------------------------------------------------------------
(* Properties of the Router                                                *)

\* the rule at position i accepts route k for this request: check returns True
Accepts(environ, i, k) ==
    LET r == RuleCheck(rules[i], environ, routes[k].key[i])
    IN  r.raises = "" /\ r.ok

\* the routes the rules at positions 1..i all accept
Survivors(environ, i) ==
    {k \in 1..Len(routes) : \A h \in 1..i : Accepts(environ, h, k)}

\* the routes every rule accepts
PassAll(environ) == Survivors(environ, Len(rules))

\* position i is the first whose filtering leaves no candidate: the rules
\* before it all accept some route, and the rule at i accepts none of these
EmptiedAt(environ, i) ==
    /\ Survivors(environ, i) = {}
    /\ Survivors(environ, i - 1) # {}

PositionOf(rule) == CHOOSE i \in 1..Len(rules) : rules[i] = rule

\* the values captured by matching route k's own path pattern against the path
OwnCaptures(environ, k) ==
    PathRuleCheck(routes[k].key[PositionOf("PathRule")], environ.PATH_INFO)

Least(S) == CHOOSE k \in S : \A h \in S : k <= h

\* C3: when Router forwards a request to an app, path_rule.args as the app
\* reads it holds the values captured by matching the forwarded route's own
\* path pattern against this request's path.
C3_ArgsOfForwardedRoute ==
    mode = "router" =>
        \A t \in Threads : frame[t].seen # <<>> =>
            frame[t].seen[1] = OwnCaptures(frame[t].environ, frame[t].outcome.route).args

\* C4: with requests in flight on several threads, the app of each request
\* reads in path_rule.args values captured from its own request's path.
C4_OwnRequestValues ==
    mode = "router" =>
        \A t \in Threads : frame[t].seen # <<>> =>
            \E k \in 1..Len(routes) :
                /\ OwnCaptures(frame[t].environ, k).ok
                /\ frame[t].seen[1] = OwnCaptures(frame[t].environ, k).args

\* C5: if the rule at position i is the first whose filtering leaves no
\* candidate route, Router raises the exception of that rule and calls check
\* on no rule after position i; with the rules [Path, Method, ContentType] a
\* request that passes the path and fails method and content-type gets 405.
C5_FirstFailingRuleWins ==
    mode = "router" =>
        \A t \in Threads : frame[t].pc = "done" =>
            \A i \in 1..Len(rules) : EmptiedAt(frame[t].environ, i) =>
                /\ frame[t].outcome = HTTPException(RuleExceptionCode(rules[i]))
                /\ \A c \in 1..Len(frame[t].checked) : frame[t].checked[c][1] <= i
                /\ frame[t].invoked = <<>>

\* C6: Router calls an app iff some route has every value accepted by its
\* rule; it then calls exactly one app, once, the app of the first-registered
\* route among those that pass every rule.
C6_FirstRegisteredWins ==
    mode = "router" =>
        \A t \in Threads :
            /\ Len(frame[t].invoked) <= 1
            /\ frame[t].pc = "done" =>
                    IF PassAll(frame[t].environ) = {}
                    THEN frame[t].invoked = <<>> /\ frame[t].outcome.kind # "app"
                    ELSE /\ frame[t].outcome = Forwarded(Least(PassAll(frame[t].environ)))
                         /\ frame[t].invoked = <<routes[Least(PassAll(frame[t].environ))].app>>

C6_Witness ==
    /\ mode = "router"
    /\ \E t \in Threads :
        /\ frame[t].pc = "done"
        /\ Cardinality(PassAll(frame[t].environ)) >= 2
        /\ frame[t].invoked = <<routes[1].app>>

\* C7: handling requests changes no field of the Router, of its route table
\* or of any Rule instance.
C7_NothingMutated ==
    [][mode = "router" => (rules' = rules /\ routes' = routes /\ args' = args)]_vars

\* C9: with the rules [PathRule, MethodRule, ContentTypeRule] a Router call
\* ends in forwarding to an app or in an HTTPException with status 404, 405 or
\* 415, whatever content-type the request carries.
C9_OnlyRoutingErrors ==
    (mode = "router" /\ rules = <<"PathRule", "MethodRule", "ContentTypeRule">>) =>
        \A t \in Threads : frame[t].pc = "done" =>
            \/ frame[t].outcome.kind = "app"
            \/ frame[t].outcome.kind = "HTTPException" /\ frame[t].outcome.code \in {404, 405, 415}

-----------------------------------------------------------------------------
(* Properties of ContentTypeRule.check                                     *)

\* the text after the first '/' of s
AfterSlash(s) == Suffix(s, Find(s, "/") + 1)

\* the verdict C10 describes, for the content-type header c and the value v
ContentTypeReference(c, v) ==
    IF v = <<>> THEN c = <<>>
    ELSE IF c = <<>> THEN FALSE
    ELSE IF Contains(v[1], "/") THEN v[1] = c[1]
    ELSE Contains(c[1], "/") /\ InList(v[1], Split(AfterSlash(c[1]), "+"))

\* C10: ContentTypeRule.check(request, expected) returns the verdict of the
\* reference: None accepts only an absent content-type, an absent content-type
\* is accepted only by None, a value with '/' accepts only the identical
\* string, a value without '/' accepts iff it is one of the '+'-separated
\* components of the text after the '/' of the content-type.
C10_EqualsReference ==
    (mode = "content_type" /\ ret # <<>>) =>
        ret[1] = Returned(ContentTypeReference(content_type, expected))

-----------------------------------------------------------------------------
(* Properties of the filters                                               *)

\* C8: for every filter and every JSON value the returned reason is empty if
\* and only if the returned accepted flag is True.
C8_ReasonEmptyIffAccepted ==
    (mode = "filter" /\ ret # <<>>) => (ret[1].reason = "" <=> ret[1].check)

-----------------------------------------------------------------------------
(* Properties of the Object filter                                         *)

\* the key is one of the value's keys
HasKey(v, key) == InList(key, Keys(v[2]))

\* the declared entry <<key, filter, optional>> fails on the dict v: its key
\* is present with a value its filter rejects, or absent and required
EntryFails(entry, v) ==
    IF HasKey(v, entry[1]) THEN ~Filter(entry[2], Lookup(v[2], entry[1])).check
    ELSE ~entry[3]

\* the reason names the key
Names(reason, key) == Contains(reason, "'" \o key \o "'")

\* the reason is the one the failing entry stands for
ReasonOfEntry(reason, entry, v) ==
    IF HasKey(v, entry[1])
    THEN reason = entry[1] \o ": " \o Filter(entry[2], Lookup(v[2], entry[1])).reason
    ELSE Names(reason, entry[1])

FailingEntries(f, v) == {k \in 1..Len(f[2]) : EntryFails(f[2][k], v)}

\* the keys of the value the schema does not declare, as positions in the value
UndeclaredKeys(f, v) ==
    {h \in 1..Len(v[2]) : \A k \in 1..Len(f[2]) : f[2][k][1] # v[2][h][1]}

\* C11: an Object filter rejects a non-dict; a declared key that is present
\* with a rejected value or absent and required makes it reject, with the
\* reason '<key>: <child reason>' resp. a reason naming the key, of a failing
\* declared key; when every declared key passes it accepts iff no undeclared
\* key is present or ignore_more is set, and otherwise names an undeclared key.
C11_ObjectVerdict ==
    (mode = "filter" /\ ret # <<>> /\ schema[1] = "Object") =>
        LET r == ret[1]
            failing == FailingEntries(schema, json)
            undeclared == UndeclaredKeys(schema, json)
        IN  IF ClassName(json) # "dict" THEN ~r.check
            ELSE IF failing # {}
            THEN /\ ~r.check
                 /\ \E k \in failing : ReasonOfEntry(r.reason, schema[2][k], json)
            ELSE /\ r.check <=> (undeclared = {} \/ schema[3])
                 /\ ~r.check => \E h \in undeclared : Names(r.reason, json[2][h][1])

\* the example schema rejects {id: 5, extra: 1} naming 'extra'
C11_Witness ==
    /\ mode = "filter"
    /\ ret # <<>>
    /\ schema = Object(ExampleEntries, FALSE)
    /\ json = JDict(<< <<"id", JInt(5)>>, <<"extra", JInt(1)>> >>)
    /\ ret[1] = Verdict(FALSE, "unsupported key 'extra'")

-----------------------------------------------------------------------------
(* Properties of the evaluation order (SpecEval)                           *)

\* the calls an evaluation made to the children of its outermost filter
IsDirect(call) == call[1] = 1
DirectCalls(e) == SelectSeq(e.calls, IsDirect)

\* s is the sequence of the first n elements of full
IsPrefix(s, full, n) == Len(s) = n /\ n <= Len(full) /\ \A k \in 1..n : s[k] = full[k]

\* the positions of the list's elements the child filter rejects
RejectedElements(child, items) == {k \in 1..Len(items) : ~Filter(child, items[k]).check}

\* the number of elements an Array filter applies its child to: all of them,
\* or those up to the first rejected one
ArrayApplied(child, items) ==
    IF RejectedElements(child, items) = {} THEN Len(items)
    ELSE Least(RejectedElements(child, items))

\* C12: an Array filter rejects a non-list; it accepts a list iff the child
\* accepts every element; a rejection's reason is '<i>: <child reason>' for
\* the smallest index i (0-based) of a rejected element, and the child is
\* applied, in order, to the elements up to index i and to no later one.
C12_ArrayFirstRejected ==
    \A t \in Threads :
        (mode = "eval" /\ schema[1] = "Array" /\ eval[t].pc # "idle") =>
            LET e == eval[t]
                child == schema[2]
                items == e.value[2]
                rejected == RejectedElements(child, items)
                first == Least(rejected)
            IN  IF ClassName(e.value) # "list"
                THEN /\ DirectCalls(e) = <<>>
                     /\ e.pc = "done" => ~e.result[1].check
                ELSE /\ \E n \in 0..ArrayApplied(child, items) :
                            IsPrefix(DirectCalls(e),
                                     [k \in 1..Len(items) |-> <<1, child, items[k]>>], n)
                     /\ e.pc = "done" =>
                            /\ Len(DirectCalls(e)) = ArrayApplied(child, items)
                            /\ e.result[1].check <=> rejected = {}
                            /\ rejected # {} =>
                                    e.result[1].reason = ToString(first - 1) \o ": "
                                        \o Filter(child, items[first]).reason

\* [1, 2, 'x'] against Array(Number(require_int=True)) fails at index 2, and
\* ['x', 1] at index 0 with the child applied to 'x' only
C12_Witness ==
    /\ mode = "eval"
    /\ schema = Array(Number(<<>>, <<>>, TRUE))
    /\ eval[1].pc = "done"
    /\ eval[1].value = JList(<<JInt(1), JInt(2), JStr("x")>>)
    /\ eval[1].result[1] = Verdict(FALSE, "2: expected int, found 'x' of type str")
    /\ eval[2].pc = "done"
    /\ eval[2].value = JList(<<JStr("x"), JInt(1)>>)
    /\ DirectCalls(eval[2]) = << <<1, schema[2], JStr("x")>> >>

\* the positions of the alternatives that accept the value
AcceptingOptions(options, v) == {k \in 1..Len(options) : Filter(options[k], v).check}

\* the number of alternatives an Options filter tries: those up to the first
\* accepting one, or all of them
OptionsTried(options, v) ==
    IF AcceptingOptions(options, v) = {} THEN Len(options)
    ELSE Least(AcceptingOptions(options, v))

\* C13: an Options filter accepts a value iff at least one alternative
\* accepts it; the alternatives are applied in declared order up to the
\* first accepting one and none after it; when none accepts, the reason
\* contains the reasons of all alternatives in declared order joined with
\* ' or '.
C13_OptionsFirstAccepting ==
    \A t \in Threads :
        (mode = "eval" /\ schema[1] = "Options" /\ eval[t].pc # "idle") =>
            LET e == eval[t]
                options == schema[2]
                accepting == AcceptingOptions(options, e.value)
            IN  /\ \E n \in 0..OptionsTried(options, e.value) :
                        IsPrefix(DirectCalls(e),
                                 [k \in 1..Len(options) |-> <<1, options[k], e.value>>], n)
                /\ e.pc = "done" =>
                        /\ Len(DirectCalls(e)) = OptionsTried(options, e.value)
                        /\ e.result[1].check <=> accepting # {}
                        /\ accepting = {} =>
                                Contains(e.result[1].reason,
                                         Join([k \in 1..Len(options) |->
                                                    Filter(options[k], e.value).reason], " or "))

\* 5.0 is accepted by Options(Number(require_int=True), Number()) through the
\* second alternative; 5 through the first, the second not being tried
C13_Witness ==
    /\ mode = "eval"
    /\ schema = Options(<<Number(<<>>, <<>>, TRUE), Number(<<>>, <<>>, FALSE)>>)
    /\ eval[1].pc = "done"
    /\ eval[1].value = JFloat(10)
    /\ eval[1].result[1].check
    /\ Len(DirectCalls(eval[1])) = 2
    /\ eval[2].pc = "done"
    /\ eval[2].value = JInt(5)
    /\ eval[2].result[1].check
    /\ Len(DirectCalls(eval[2])) = 1

-----------------------------------------------------------------------------
(* Properties of the Number filter                                         *)

\* a <= b for ints and floats
LessEq(a, b) ==
    /\ ~IsNaN(a)
    /\ ~IsNaN(b)
    /\ \/ IsNegInf(a)
       \/ IsPosInf(b)
       \/ ~IsPosInf(a) /\ ~IsNegInf(b) /\ Twice(a) <= Twice(b)

\* the value's class is the one the filter asks for
RightKind(f, v) ==
    IF f[4] THEN ClassName(v) = "int" ELSE ClassName(v) \in {"int", "float"}

\* min <= value <= max, for the bounds that are set
InRange(f, v) ==
    /\ f[2] # <<>> => LessEq(f[2][1], v)
    /\ f[3] # <<>> => LessEq(v, f[3][1])

\* C14: a Number filter with require_int accepts only values of class int,
\* without it only values of class int or float, and a value of the right
\* class is accepted iff min <= value <= max for the bounds that are set.
C14_NumberKindAndRange ==
    (mode = "filter" /\ ret # <<>> /\ schema[1] = "Number") =>
        (ret[1].check <=> (RightKind(schema, json) /\ InRange(schema, json)))

-----------------------------------------------------------------------------
(* Purity of the filters (SpecEval)                                        *)

\* two finished evaluations of the shared filter on the same value returned
\* the same (check, reason), whatever the threads evaluated before and however
\* their steps interleaved
SameValueSameVerdict ==
    \A t1, t2 \in Threads :
        (eval[t1].pc = "done" /\ eval[t2].pc = "done" /\ eval[t1].value = eval[t2].value)
            => eval[t1].result = eval[t2].result

\* a step leaves the filter tree and the value of every running evaluation as
\* they were
NothingWritten ==
    /\ schema' = schema
    /\ \A t \in Threads : eval[t].pc = "running" => eval'[t].value = eval[t].value

\* C15: evaluating a filter tree is deterministic and free of side effects:
\* the same filter on the same value returns the same (check, reason) no
\* matter which validations ran before or interleave with it, and an
\* evaluation changes neither the filter tree nor the validated value.
C15_FiltersArePure ==
    [][mode = "eval" => (NothingWritten /\ SameValueSameVerdict')]_vars

\* both threads have evaluated the example Object filter on the same dict,
\* thread 2 after a run of other evaluations, with the same verdict
C15_Witness ==
    /\ mode = "eval"
    /\ schema = Object(ExampleEntries, FALSE)
    /\ eval[1].pc = "done"
    /\ eval[2].pc = "done"
    /\ eval[1].value = JDict(<< <<"description", JInt(1)>>, <<"id", JInt(-1)>> >>)
    /\ eval[2].value = eval[1].value
    /\ eval[2].result = eval[1].result
    /\ ~eval[1].result[1].check

-----------------------------------------------------------------------------
(* Properties of MethodRule                                                *)

\* the two strings have the same characters at the same positions
SameCharacters(a, b) ==
    Len(a) = Len(b) /\ \A k \in 1..Len(a) : CharAt(a, k) = CharAt(b, k)

\* C17: MethodRule.check returns True iff the route's method string equals
\* the request's method string character by character, case included
\* ('GET' matches 'GET', not 'get'), and the rule's exception has status 405.
C17_ExactMethod ==
    /\ (mode = "method" /\ Len(ret) >= 1) =>
            /\ ret[1].raises = ""
            /\ ret[1].ok <=> SameCharacters(route_method, method)
    /\ (mode = "method" /\ Len(ret) = 2) =>
            (ret[2].kind = "HTTPException" /\ ret[2].code = 405)

\* the route asks for 'GET', the request's method is 'get': rejected, and
\* the exception asked for is 405
C17_Witness ==
    /\ mode = "method"
    /\ route_method = "GET"
    /\ method = "get"
    /\ Len(ret) = 2
    /\ ~ret[1].ok
    /\ ret[2] = HTTPException(405)

-----------------------------------------------------------------------------
(* Properties of FilteredJSONParser (SpecParser)                           *)

\* the first n bytes of the body
FirstBytes(body, n) == SubSeq(body, 1, Min(n, Len(body)))

\* the part of the content type between its first '/' and the next one
Subtype(ct) ==
    LET rest == Suffix(ct, Find(ct, "/") + 1)
    IN  IF Contains(rest, "/") THEN Prefix(rest, Find(rest, "/")) ELSE rest

\* json stands in the subtype between '+' signs or the subtype's ends
HasJsonToken(ct) ==
    /\ Contains(ct, "/")
    /\ \E a \in 1..Len(Subtype(ct)) :
            /\ StartsWith(Suffix(Subtype(ct), a - 1), "json")
            /\ a = 1 \/ Peek(Subtype(ct), a - 1) = "+"
            /\ Peek(Subtype(ct), a + 4) \in {"", "+"}

\* the four conditions of a request, from its environ and body alone
TypePresent(p) == p.environ.CONTENT_TYPE # <<>>
TypeIsJson(p) == TypePresent(p) /\ HasJsonToken(p.environ.CONTENT_TYPE[1])
DeclaredBody(p, body) == FirstBytes(body, ReadSize(p.environ))
BodyParses(p, body) ==
    /\ TypeIsJson(p)
    /\ ~ReadSizeRaises(p.environ)
    /\ Loads(DeclaredBody(p, body)).raises = ""
FilterAccepts(p, body) ==
    BodyParses(p, body) /\ Filter(p.filter, Loads(DeclaredBody(p, body)).value).check

\* C16: each of the three body failures raises an HTTPException with status
\* 400: no content-type, a body that is not well-formed JSON, a JSON value the
\* filter rejects, the message then being the filter's reason.
C16_BodyFailuresAre400 ==
    (mode = "parser" /\ parser.pc = "done") =>
        LET read == TypeIsJson(parser) /\ ~ReadSizeRaises(parser.environ)
            value == Loads(DeclaredBody(parser, input.body)).value
        IN  /\ ~TypePresent(parser) =>
                    (parser.outcome.kind = "HTTPException" /\ parser.outcome.code = 400)
            /\ (read /\ ~BodyParses(parser, input.body)) =>
                    (parser.outcome.kind = "HTTPException" /\ parser.outcome.code = 400)
            /\ (BodyParses(parser, input.body) /\ ~FilterAccepts(parser, input.body)) =>
                    parser.outcome
                        = HTTPExceptionWith(400, Filter(parser.filter, value).reason, <<>>)

Stages == <<"present", "json", "read", "parse", "filter", "app">>

\* C19: FilteredJSONParser makes its checks in the order content-type
\* present, content-type has the json token, body parses, filter accepts, and
\* makes a check only when the ones before it held; the app is invoked iff
\* all four hold; the filter is called on nothing but the parsed body; the
\* body is read at most once, with int(CONTENT_LENGTH) (0 when absent) as the
\* size and the bytes it allows as the result, and not at all when a
\* content-type check fails.
C19_ChecksInOrder ==
    (mode = "parser" /\ parser.pc # "idle") =>
        LET p == parser
            n == Len(p.trail)
        IN  /\ IsPrefix(p.trail, Stages, n)
            /\ n >= 2 => TypePresent(p)
            /\ n >= 3 => TypeIsJson(p)
            /\ n >= 5 => BodyParses(p, input.body)
            /\ n = 6 => FilterAccepts(p, input.body)
            /\ p.outcome.kind \notin {"none", "app"} => p.pc = "done"
            /\ p.pc = "done" => (p.outcome = AppResult <=> FilterAccepts(p, input.body))
            /\ p.outcome = AppResult <=> n = 6
            /\ p.filtered # <<>> =>
                    /\ BodyParses(p, input.body)
                    /\ p.filtered = <<Loads(DeclaredBody(p, input.body)).value>>
            /\ Len(input.reads) <= 1
            /\ input.reads # <<>> =>
                    /\ TypeIsJson(p)
                    /\ input.reads = <<ReadSize(p.environ)>>
                    /\ p.raw_content = <<DeclaredBody(p, input.body)>>
                    /\ input.pos = Len(DeclaredBody(p, input.body))

\* the example filter's parser has forwarded {"id": 5}, sent as
\* application/json with CONTENT_LENGTH 9, after one read of 9 bytes
C19_Witness ==
    /\ mode = "parser"
    /\ parser.filter = Object(ExampleEntries, FALSE)
    /\ parser.environ = [CONTENT_TYPE |-> <<"application/json">>, CONTENT_LENGTH |-> <<"9">>]
    /\ input.body = Bytes("{\"id\": 5}")
    /\ parser.trail = Stages
    /\ parser.outcome = AppResult
    /\ parser.seen = <<JDict(<< <<"id", JInt(5)>> >>)>>
    /\ input.reads = <<9>>

-----------------------------------------------------------------------------
(* Properties of BasicAuth (SpecAuth)                                      *)

\* the request sends Basic credentials; the text they decode to
SendsBasic(h) == h # <<>> /\ StartsWith(h[1], "Basic ")
CredentialBytes(h) == B64Decode(Suffix(h[1], 6))
CredentialText(h) == Utf8Decode(CredentialBytes(h).value)

\* the credentials decode to 'user:password'
Decodes(h) ==
    /\ SendsBasic(h)
    /\ CredentialBytes(h).raises = ""
    /\ ~Utf8Raises(CredentialBytes(h).value)
    /\ Contains(CredentialText(h), ":")

UserOf(h) == Prefix(CredentialText(h), Find(CredentialText(h), ":"))
PasswordOf(h) == Suffix(CredentialText(h), Find(CredentialText(h), ":") + 1)

\* C18: BasicAuth invokes the wrapped app only for a request whose
\* Authorization header starts with 'Basic ', decodes to 'user:password' and
\* has is_correct(user, password) True; every other request ends, the app
\* not invoked, in an HTTPException: 401 with a WWW-Authenticate header when
\* no Basic credentials are sent, 401 when is_correct is False, 400 when the
\* credentials cannot be processed; while the wrapped app runs, the user
\* property is the user name of its own request, whatever the other thread
\* does.
C18_OnlyAuthenticated ==
    \A t \in Threads :
        (mode = "auth") =>
            LET a == auth[t]
                h == a.header
                valid == Decodes(h) /\ IsCorrect(UserOf(h), PasswordOf(h))
            IN  /\ (a.pc = "app" \/ a.invoked) => valid
                /\ (a.pc = "done" /\ valid) => a.invoked
                /\ (a.pc = "done" /\ ~valid) =>
                        /\ ~a.invoked
                        /\ a.outcome.kind = "HTTPException"
                        /\ ~SendsBasic(h) =>
                                /\ a.outcome.code = 401
                                /\ \E k \in 1..Len(a.outcome.headers) :
                                        a.outcome.headers[k][1] = "WWW-Authenticate"
                        /\ Decodes(h) => a.outcome.code = 401
                        /\ (SendsBasic(h) /\ ~Decodes(h)) => a.outcome.code = 400
                /\ a.pc = "app" => RequestDataUser(auth, t) = <<UserOf(h)>>
                /\ a.invoked => a.seen = <<UserOf(h)>>

\* the wrapped app runs in both threads at once, for user u in thread 1 and
\* for user v in thread 2, thread 1 having been refused as ':' before
C18_Witness ==
    /\ mode = "auth"
    /\ auth[1].pc = "app"
    /\ auth[1].header = <<"Basic dTpw">>
    /\ auth[1].user = <<"u">>
    /\ auth[2].pc = "app"
    /\ auth[2].header = <<"Basic djpx">>
    /\ auth[2].user = <<"v">>

-----------------------------------------------------------------------------
(* Properties of the Object filter's evaluation order (SpecEval)           *)

\* the number of declared entries an Object filter gets to: all of them, or
\* those up to the first failing one
EntriesReached(f, v) ==
    IF FailingEntries(f, v) = {} THEN Len(f[2]) ELSE Least(FailingEntries(f, v))

\* the declared entries among the first n whose key the value has
IsPresent(entry, v) == HasKey(v, entry[1])
RECURSIVE PresentEntries(_, _, _)
PresentEntries(f, v, n) ==
    IF n = 0 THEN <<>>
    ELSE IF IsPresent(f[2][n], v) THEN Append(PresentEntries(f, v, n - 1), f[2][n])
    ELSE PresentEntries(f, v, n - 1)

\* the child calls of Object f on the dict v: one for each declared entry
\* reached whose key is present, in declared order
ObjectCalls(f, v) ==
    LET reached == PresentEntries(f, v, EntriesReached(f, v))
    IN  [k \in 1..Len(reached) |-> <<1, reached[k][2], Lookup(v[2], reached[k][1])>>]

\* C20: an Object filter reports one failure, the first in declared-key
\* order: the reason is the one of the first declared key that is present
\* with a rejected value or absent and required, and no child filter of a
\* later declared key is evaluated; the reason is an 'unsupported key' one
\* only when every declared key passed, and then it names the first
\* undeclared key in the value's own key order.
C20_ObjectFirstFailure ==
    \A t \in Threads :
        (mode = "eval" /\ schema[1] = "Object" /\ eval[t].pc # "idle"
            /\ ClassName(eval[t].value) = "dict") =>
            LET e == eval[t]
                v == e.value
                failing == FailingEntries(schema, v)
                undeclared == UndeclaredKeys(schema, v)
                due == ObjectCalls(schema, v)
            IN  /\ \E n \in 0..Len(due) : IsPrefix(DirectCalls(e), due, n)
                /\ e.pc = "done" =>
                        /\ DirectCalls(e) = due
                        /\ failing # {} =>
                                /\ ~e.result[1].check
                                /\ ReasonOfEntry(e.result[1].reason,
                                                 schema[2][Least(failing)], v)
                        /\ StartsWith(e.result[1].reason, "unsupported key") =>
                                /\ failing = {}
                                /\ undeclared # {}
                                /\ e.result[1].reason = "unsupported key '"
                                        \o v[2][Least(undeclared)][1] \o "'"

\* {description: 1, id: -1} is rejected for 'id', the first declared key, the
\* filter of 'description' never called; {more, id, extra} is rejected for
\* 'more', the first of its two undeclared keys
C20_Witness ==
    /\ mode = "eval"
    /\ schema = Object(ExampleEntries, FALSE)
    /\ eval[1].pc = "done"
    /\ eval[1].value = JDict(<< <<"description", JInt(1)>>, <<"id", JInt(-1)>> >>)
    /\ StartsWith(eval[1].result[1].reason, "id: ")
    /\ DirectCalls(eval[1]) = << <<1, ExampleEntries[1][2], JInt(-1)>> >>
    /\ eval[2].pc = "done"
    /\ eval[2].value = JDict(<< <<"more", JInt(2)>>, <<"id", JInt(5)>>, <<"extra", JInt(1)>> >>)
    /\ eval[2].result[1] = Verdict(FALSE, "unsupported key 'more'")

-----------------------------------------------------------------------------
(* Properties of PathRule.check's captured values (SpecPath)               *)

\* the places of the remaining path where the literal occurs, as the number
\* of characters before it
Occurrences(rest, literal) ==
    {n \in 0..Len(rest) : StartsWith(Suffix(rest, n), literal)}

\* The walk of a pattern along a path as the claim describes it, from the
\* pattern's element i on: the inputs of the converters it gets to, and how
\* it ends: "matched", or "literal" (a literal is not what the path goes on
\* with), "missing" (the literal after a converter does not occur), "raised"
\* (a converter raises ValueError on its input), "rest" (path left over).
RECURSIVE Walk(_, _, _, _)
Walk(value, i, rest, inputs) ==
    IF i > Len(value)
    THEN [inputs |-> inputs, ends |-> IF rest = "" THEN "matched" ELSE "rest"]
    ELSE IF i % 2 = 1
    THEN IF 0 \in Occurrences(rest, value[i])
         THEN Walk(value, i + 1, Suffix(rest, Len(value[i])), inputs)
         ELSE [inputs |-> inputs, ends |-> "literal"]
    ELSE IF i = Len(value)
    THEN IF ConvRaises(value[i], rest)
         THEN [inputs |-> Append(inputs, rest), ends |-> "raised"]
         ELSE Walk(value, i + 1, "", Append(inputs, rest))
    ELSE IF Occurrences(rest, value[i + 1]) = {}
    THEN [inputs |-> inputs, ends |-> "missing"]
    ELSE LET n == Least(Occurrences(rest, value[i + 1]))
         IN  IF ConvRaises(value[i], Prefix(rest, n))
             THEN [inputs |-> Append(inputs, Prefix(rest, n)), ends |-> "raised"]
             ELSE Walk(value, i + 1, Suffix(rest, n), Append(inputs, Prefix(rest, n)))

\* the number of converters of a pattern, and its k-th converter
NumConverters(value) == Len(value) \div 2
Converter(value, k) == value[2 * k]

\* C21: when PathRule.check returns True, the captured list holds one value
\* per converter of the pattern, in pattern order, each the converter's value
\* of its input: the remaining path up to the first occurrence of the next
\* literal for a converter that is not last, all of the remaining path for a
\* last one; check returns False when that literal does not occur and when a
\* converter raises ValueError; when it returns False the captured values
\* published before stay as they were.
C21_CapturedValues ==
    [][(mode = "path" /\ ret = <<>> /\ ret' # <<>>) =>
        LET w == Walk(pattern, 1, path, <<>>)
        IN  /\ ret'[1] =>
                    /\ Len(args') = NumConverters(pattern)
                    /\ Len(w.inputs) = NumConverters(pattern)
                    /\ \A k \in 1..NumConverters(pattern) :
                            /\ ~ConvRaises(Converter(pattern, k), w.inputs[k])
                            /\ args'[k] = ConvValue(Converter(pattern, k), w.inputs[k])
            /\ w.ends \in {"missing", "raised"} => ~ret'[1]
            /\ ~ret'[1] => args' = args
      ]_vars

\* '/id/abc/name/joe' has just failed on int('abc'), and the values captured
\* from '/id/42/name/joe' before, one per converter, are still published
C21_Witness ==
    /\ mode = "path"
    /\ pattern = IdNamePattern
    /\ path = PathAbc
    /\ ret = <<FALSE>>
    /\ Walk(pattern, 1, path, <<>>).ends = "raised"
    /\ args = << <<"int", 42>>, <<"str", "joe">> >>

====
